---------------------------- MODULE Spec2Model ----------------------------
(***************************************************************************)
(* Model of the kiln controller of PotteryOven: the heater module          *)
(* (Core/Src/heater.c), the Q16.16 gradient controller (Core/Src/pid.c)    *)
(* and the MAX31855 thermocouple driver (Core/Src/MAX31855.c).             *)
(*                                                                         *)
(* Every handler is one action; the C functions are operators that take    *)
(* the machine state (a record of the structures the function touches)    *)
(* and return the machine state after the call.                            *)
(***************************************************************************)
EXTENDS Integers, Sequences, FiniteSets, TLC

(***************************************************************************)
(* Bounds of the model.                                                    *)
(***************************************************************************)
\* number of RTC alarm interrupts (ticks) in one behaviour
MaxTicks == 3

\* number of GradientController_Update calls in one behaviour of SpecGC
MaxUpdates == 3

\* number of max31855_read_data calls in one behaviour of SpecSensor
MaxReads == 2

\* number of Q16_MUL evaluations in one behaviour of SpecQ16
MaxMuls == 2

\* number of GradientController_Update calls in one behaviour of SpecSlope
MaxSlopeUpdates == 24

\* calls of the programs module in a behaviour of SpecPrograms
MaxProgramOps == 3

\* addresses of the heap the event queue takes its nodes from
MaxNodes == 3

\* ticks that may pass without completing a step in a behaviour of SpecSequencer
MaxWaitTicks == 2

\* calls of GetHeaterLevels in a behaviour of SpecLevel
MaxLevelCalls == 2

\* calls of event_enqueue in a behaviour of SpecEventQueue
MaxEnqueues == 4

\* calls of ui_update with an event in a behaviour of SpecUiSettings
MaxUiEvents == 9

\* events the user interface handles in a behaviour of SpecApplyIrq
MaxEdits == 2

\* interrupts that arrive inside one call of the foreground
MaxIrqTicks == 1

\* calls of ui_update in a behaviour of SpecUiPrograms
MaxCreateEvents == 6

(***************************************************************************)
(* 32-bit and 16-bit integer arithmetic.  TLC's integers are 32 bits wide, *)
(* so the 64-bit intermediates of the C code are computed on 16-bit halves.*)
(***************************************************************************)
TwoTo15 == 2 ^ 15
TwoTo16 == 2 ^ 16

\* the signed 32-bit value with upper half hi and lower half lo (any integers)
FromHalves(hi, lo) ==
    LET l == lo % TwoTo16
        h == (hi + (lo \div TwoTo16)) % TwoTo16
    IN  (IF h >= TwoTo15 THEN h - TwoTo16 ELSE h) * TwoTo16 + l

\* int32 addition as the target computes it (two's complement wrap-around);
\* x and y are the operands, computed once
Add32(a, b) ==
    CHOOSE sum \in
        { FromHalves((x \div TwoTo16) + (y \div TwoTo16),
                     (x % TwoTo16) + (y % TwoTo16)) : x \in {a}, y \in {b} } : TRUE

\* int32 subtraction as the target computes it (two's complement
\* wrap-around); x and y are the operands, computed once
Sub32(a, b) ==
    CHOOSE difference \in
        { FromHalves((x \div TwoTo16) - (y \div TwoTo16),
                     (x % TwoTo16) - (y % TwoTo16)) : x \in {a}, y \in {b} } : TRUE

\* conversion of an out-of-range integer to int16_t by truncation to 16 bits
Wrap16(x) == ((x + TwoTo15) % TwoTo16) - TwoTo15

\* conversion to int16_t by saturation
Sat16(x) == IF x > 32767 THEN 32767 ELSE IF x < -32768 THEN -32768 ELSE x

\* floor(x * y / 65536) for 0 <= x, y < 65536, without leaving 32 bits
MulLowHigh(x, y) ==
    ((x * (y \div 256)) + ((x * (y % 256)) \div 256)) \div 256

\* Q16_MUL without the casts to int64_t: the 32-bit product, shifted
Q16_MUL_Int32(a, b) ==
    LET ah == a \div TwoTo16
        al == a % TwoTo16
        bh == b \div TwoTo16
        bl == b % TwoTo16
    IN  Wrap16(((ah * bl) % TwoTo16) + ((al * bh) % TwoTo16)
               + MulLowHigh(al, bl))

\* Q16_MUL(a, b) = (q16_t)(((int64_t)a * (int64_t)b) >> 16): the 64-bit
\* product, arithmetic shift (floor), truncated to 32 bits by the cast; x
\* and y are the operands, computed once
Q16_MUL(a, b) ==
    CHOOSE product \in
        { LET ah == x \div TwoTo16
              al == x % TwoTo16
              bh == y \div TwoTo16
              bl == y % TwoTo16
              m1 == ah * bl
              m2 == al * bh
              lo == (m1 % TwoTo16) + (m2 % TwoTo16) + MulLowHigh(al, bl)
              hi == ((ah * bh) % TwoTo16) + (m1 \div TwoTo16) + (m2 \div TwoTo16)
          IN  FromHalves(hi, lo) : x \in {a}, y \in {b} } : TRUE

\* the cast of Q16_MUL loses bits: the shifted 64-bit product is outside int32
Q16_MUL_Overflows(a, b) ==
    LET ah == a \div TwoTo16
        al == a % TwoTo16
        bh == b \div TwoTo16
        bl == b % TwoTo16
        m1 == ah * bl
        m2 == al * bh
        lo == (m1 % TwoTo16) + (m2 % TwoTo16) + MulLowHigh(al, bl)
        hi == (ah * bh) + (m1 \div TwoTo16) + (m2 \div TwoTo16) + (lo \div TwoTo16)
    IN  hi \notin -TwoTo15 .. TwoTo15 - 1

Q16_ONE == 65536
Q16_ZERO == 0

\* floor(r * 2^n / b) for 0 <= r < b < 2^31, one bit of the quotient a step
RECURSIVE QuotientBits(_, _, _)
QuotientBits(r, b, n) ==
    IF n = 0 THEN 0
    ELSE IF r >= b - r
    THEN 2 ^ (n - 1) + QuotientBits(r - (b - r), b, n - 1)
    ELSE QuotientBits(r + r, b, n - 1)

\* Q16_DIV(a, b) = (q16_t)(((int64_t)a << 16) / b): the 64-bit quotient,
\* truncated toward zero, then to 32 bits by the cast; for operands other
\* than INT32_MIN and a divisor other than 0
Q16_DIV(a, b) ==
    LET n    == IF a >= 0 THEN a ELSE -a
        d    == IF b >= 0 THEN b ELSE -b
        hi   == (n \div d) % TwoTo16
        lo   == QuotientBits(n % d, d, 16)
    IN  IF (a < 0) = (b < 0) THEN FromHalves(hi, lo)
        ELSE FromHalves(-hi, -lo)

\* C integer division (truncation toward zero), b > 0
DivTrunc(a, b) == IF a >= 0 THEN a \div b ELSE -((-a) \div b)


(***************************************************************************)
(* MAX31855 thermocouple driver (Core/Src/MAX31855.c).                     *)
(* A frame is the four bytes received over SPI, D31 first.                 *)
(***************************************************************************)
\* bits [lo .. lo+n-1] of the non-negative integer x
Bits(x, lo, n) == (x \div (2 ^ lo)) % (2 ^ n)

\* the parsed payload of the zero-initialised driver handle
ZeroPayload ==
    [therm_temp_sign |-> 0, therm_temp_value |-> 0,
     therm_temp_fractual_value |-> 0, fault |-> 0,
     int_temp_sign |-> 0, int_temp_value |-> 0, int_temp_fractual_value |-> 0,
     scv_fault |-> 0, scg_fault |-> 0, oc_fault |-> 0]

\* max31855_update_payload: the fields of the 32-bit frame, by mask and shift
\* (upper half-word = raw_data >> 16, lower half-word = raw_data & 0xFFFF)
max31855_update_payload(raw_payload) ==
    LET upper == raw_payload[1] * 256 + raw_payload[2]
        lower == raw_payload[3] * 256 + raw_payload[4]
    IN  [therm_temp_sign           |-> Bits(upper, 15, 1),
         therm_temp_value          |-> Bits(upper, 4, 11),
         therm_temp_fractual_value |-> Bits(upper, 2, 2),
         fault                     |-> Bits(upper, 0, 1),
         int_temp_sign             |-> Bits(lower, 15, 1),
         int_temp_value            |-> Bits(lower, 8, 7),
         int_temp_fractual_value   |-> Bits(lower, 4, 4),
         scv_fault                 |-> Bits(lower, 2, 1),
         scg_fault                 |-> Bits(lower, 1, 1),
         oc_fault                  |-> Bits(lower, 0, 1)]

\* max31855_read_data: spi_ok is the outcome of HAL_SPI_Receive.  On an SPI
\* error or timeout the parsed payload keeps the previous frame's fields.
max31855_read_data(payload, spi_ok, raw_payload) ==
    IF ~spi_ok
    THEN [ret |-> "HAL_ERROR", payload |-> payload]
    ELSE [ret |-> "HAL_OK", payload |-> max31855_update_payload(raw_payload)]

\* max31855_get_temp_val: for a set sign bit, ~value + 1 returned as uint16_t
max31855_get_temp_val(payload) ==
    IF payload.therm_temp_sign = 0
    THEN payload.therm_temp_value
    ELSE (-payload.therm_temp_value) % TwoTo16

\* max31855_get_temp_f32, in quarters of a degree (the float32 result holds
\* every such value exactly: |temp_val| < 2^16 and two fraction bits)
max31855_get_temp_f32(payload) ==
    LET quarters == 4 * max31855_get_temp_val(payload)
                      + payload.therm_temp_fractual_value
    IN  IF payload.therm_temp_sign = 1 THEN -quarters ELSE quarters

(***************************************************************************)
(* Gradient controller (Core/Src/pid.c, Core/Inc/pid.h).                   *)
(***************************************************************************)
GC_DEFAULT_KC == 100 * 65536
GC_DEFAULT_TI_INV_TS == 1092
GC_DEFAULT_TAW_INV_TS == 1092
GC_DEFAULT_ALPHA == 52429
GC_DEFAULT_ONE_M_ALPHA == 13107
GC_DEFAULT_TS_MS == 1000
GC_DEFAULT_U_MIN == Q16_ZERO
GC_DEFAULT_U_MAX == Q16_ONE

\* GradientController_Reset that does not clear the integrator
GradientController_Reset_KeepIntegrator(gc) ==
    [gc EXCEPT !.T_prev_mdeg = 0, !.g_f_prev = Q16_ZERO,
               !.g_sp = Q16_ZERO, !.initialized = 0]

\* GradientController_Reset: clears the state, keeps the tuning
GradientController_Reset(gc) ==
    [gc EXCEPT !.T_prev_mdeg = 0, !.g_f_prev = Q16_ZERO, !.I = Q16_ZERO,
               !.g_sp = Q16_ZERO, !.initialized = 0]

\* GradientController_Init: default tuning, then reset
GradientController_Init ==
    GradientController_Reset(
        [Kc |-> GC_DEFAULT_KC, Ti_inv_Ts |-> GC_DEFAULT_TI_INV_TS,
         Taw_inv_Ts |-> GC_DEFAULT_TAW_INV_TS, alpha |-> GC_DEFAULT_ALPHA,
         one_minus_alpha |-> GC_DEFAULT_ONE_M_ALPHA, Ts_ms |-> GC_DEFAULT_TS_MS,
         u_min |-> GC_DEFAULT_U_MIN, u_max |-> GC_DEFAULT_U_MAX,
         T_prev_mdeg |-> 0, g_f_prev |-> 0, I |-> 0, g_sp |-> 0,
         initialized |-> 0])

\* GradientController_SetSetpoint
GradientController_SetSetpoint(gc, g_sp_deg_per_sec) ==
    [gc EXCEPT !.g_sp = g_sp_deg_per_sec]

\* the clamp of step 5 without its upper limit
ClampOutput_NoUpperLimit(u_star, u_min, u_max) ==
    IF u_star < u_min THEN u_min ELSE u_star

\* the clamp of step 5: two independent ifs, lower limit first
ClampOutput(u_star, u_min, u_max) ==
    LET u1 == IF u_star < u_min THEN u_min ELSE u_star
    IN  IF u1 > u_max THEN u_max ELSE u1

\* g_hat = (q16_t)(((int64_t)dT_mdeg << 16) / (int32_t)Ts_ms), computed by
\* long division; |dT_mdeg| < 2^16 and the remainder stays below Ts_ms
GradientEstimate(dT_mdeg, Ts_ms) ==
    LET mag == IF dT_mdeg >= 0 THEN dT_mdeg ELSE -dT_mdeg
        q   == (mag \div Ts_ms) * TwoTo16 + ((mag % Ts_ms) * TwoTo16) \div Ts_ms
    IN  IF dT_mdeg >= 0 THEN q ELSE -q

\* GradientController_Update(hgc, T_current_mdeg): the handle after the call,
\* the returned output u, and whether the product Kc * (e + I) of step 4 left
\* 32 bits.  The int32 sums wrap as on the target.  g_f and u_star are bound
\* as the elements of sets, so that each is computed once.
GradientController_Update(gc, T_current_mdeg) ==
    IF gc.initialized = 0
    THEN [gc |-> [gc EXCEPT !.T_prev_mdeg = T_current_mdeg, !.initialized = 1],
          u  |-> Q16_ZERO, overflow |-> FALSE]
    ELSE
      LET dT_mdeg == T_current_mdeg - gc.T_prev_mdeg
          g_hat   == GradientEstimate(dT_mdeg, gc.Ts_ms)
      IN  CHOOSE result \in
            { CHOOSE r \in
                { LET e     == Sub32(gc.g_sp, g_f)
                      u     == ClampOutput(u_star, gc.u_min, gc.u_max)
                      I_new == Add32(gc.I,
                                   Add32(Q16_MUL(gc.Ti_inv_Ts, e),
                                         Q16_MUL(gc.Taw_inv_Ts, Sub32(u, u_star))))
                  IN  [gc |-> [gc EXCEPT !.I = I_new,
                                         !.T_prev_mdeg = T_current_mdeg,
                                         !.g_f_prev = g_f],
                       u  |-> u,
                       overflow |-> Q16_MUL_Overflows(gc.Kc, Add32(e, gc.I))] :
                  u_star \in { Q16_MUL(gc.Kc, Add32(Sub32(gc.g_sp, g_f), gc.I)) }
                } : TRUE :
              g_f \in { Add32(Q16_MUL(gc.alpha, gc.g_f_prev),
                              Q16_MUL(gc.one_minus_alpha, g_hat)) } } : TRUE

\* GradientController_GetHeaterLevel without the rounding term:
\* level = (u * 6) >> 16
GradientController_GetHeaterLevel_Truncating(u) ==
    LET uc    == IF u < 0 THEN 0 ELSE IF u > Q16_ONE THEN Q16_ONE ELSE u
        level == (uc * 6) \div TwoTo16
    IN  IF level < 0 THEN 0 ELSE IF level > 6 THEN 6 ELSE level

\* GradientController_GetHeaterLevel: level = (u * 6 + 32768) >> 16, clamped
GradientController_GetHeaterLevel(u) ==
    LET uc    == IF u < 0 THEN 0 ELSE IF u > Q16_ONE THEN Q16_ONE ELSE u
        level == (uc * 6 + 32768) \div TwoTo16
    IN  IF level < 0 THEN 0 ELSE IF level > 6 THEN 6 ELSE level

(***************************************************************************)
(* Firing programs (ui_program_t, Core/Inc/ui.h).  A program is referred   *)
(* to by its index in program_list; 0 is the NULL pointer.  The arrays     *)
(* are written up to the program's length.                                 *)
(***************************************************************************)
NULL == 0

program_list ==
    <<  \* an empty program (length 0)
        [length |-> 0, gradient |-> <<>>, gradient_negative |-> <<>>,
         temperature |-> <<>>],
        \* one heating step: 150 C/h up to 20 C
        [length |-> 1, gradient |-> <<150>>, gradient_negative |-> <<0>>,
         temperature |-> <<20>>],
        \* a heating step, then a cooling step: 300 C/h to 20 C, -160 C/h to 19 C
        [length |-> 2, gradient |-> <<300, 160>>, gradient_negative |-> <<0, 1>>,
         temperature |-> <<20, 19>> ] >>

Programs == 1 .. Len(program_list)

(***************************************************************************)
(* Heater (Core/Src/heater.c).  The machine state m holds the heater       *)
(* handle h, the three coil pins gpio, the gradient controller gc that     *)
(* h.hgc points to when it is not NULL, and the sensor's parsed payload.   *)
(* time_pwm_last is 0 or 1: no timestamp, or a timestamp taken.            *)
(***************************************************************************)
Coils == 1 .. 3

\* the coil states heater_set_level assigns for a level (its switch)
LevelCoilStates(level) ==
    CASE level = 0 -> <<"COIL_OFF", "COIL_OFF", "COIL_OFF">>
      [] level = 1 -> <<"COIL_PWM", "COIL_OFF", "COIL_OFF">>
      [] level = 2 -> <<"COIL_ON",  "COIL_OFF", "COIL_OFF">>
      [] level = 3 -> <<"COIL_ON",  "COIL_PWM", "COIL_OFF">>
      [] level = 4 -> <<"COIL_ON",  "COIL_ON",  "COIL_OFF">>
      [] level = 5 -> <<"COIL_ON",  "COIL_ON",  "COIL_PWM">>
      [] level = 6 -> <<"COIL_ON",  "COIL_ON",  "COIL_ON">>

\* heater_set_level: stores the level, then sets the three coil states; a
\* level above 6 is stored and returns HAL_ERROR with the coils untouched
heater_set_level(m, level) ==
    IF level \in 0 .. 6
    THEN [m EXCEPT !.h.heater_level = level,
                   !.h.coils = [c \in Coils |->
                       [@[c] EXCEPT !.state = LevelCoilStates(level)[c]]]]
    ELSE [m EXCEPT !.h.heater_level = level]

\* heater_set_default_params leaving gradient control enabled
heater_set_default_params_Enabled(m) ==
    [m EXCEPT !.h.heater_level = 0, !.h.heater_level_prev = 255,
              !.h.flag_door_open = 0,
              !.h.coils = [c \in Coils |-> [state |-> "COIL_OFF", time_pwm_last |-> 0]],
              !.h.gradient_control_enabled = 1,
              !.h.active_program = NULL, !.h.current_step = 0,
              !.h.target_temperature = 0]

\* heater_set_default_params
heater_set_default_params(m) ==
    [m EXCEPT !.h.heater_level = 0, !.h.heater_level_prev = 255,
              !.h.flag_door_open = 0,
              !.h.coils = [c \in Coils |-> [state |-> "COIL_OFF", time_pwm_last |-> 0]],
              !.h.gradient_control_enabled = 0,
              !.h.active_program = NULL, !.h.current_step = 0,
              !.h.target_temperature = 0]

\* heater_check_door_state that saves the level of an open door but does not
\* force level 0
heater_check_door_state_NoForceOff(m) ==
    LET opened ==
          IF m.h.flag_door_open # 0 /\ m.h.heater_level_prev = 255
          THEN [m EXCEPT !.h.heater_level_prev = m.h.heater_level]
          ELSE m
    IN  IF opened.h.flag_door_open = 0 /\ opened.h.heater_level_prev # 255
        THEN [heater_set_level(opened, opened.h.heater_level_prev)
                 EXCEPT !.h.heater_level_prev = 255]
        ELSE opened

\* heater_check_door_state: an open door saves the level once and forces
\* level 0; a closed door restores a saved level and clears the save.  (Its
\* HAL_ERROR returns need heater_set_level to fail, that is a level above 6,
\* which neither the controller nor a saved level ever is.)
heater_check_door_state(m) ==
    LET opened ==
          IF m.h.flag_door_open # 0
          THEN LET saved == IF m.h.heater_level_prev = 255
                            THEN [m EXCEPT !.h.heater_level_prev = m.h.heater_level]
                            ELSE m
               IN  IF saved.h.heater_level # 0 THEN heater_set_level(saved, 0)
                                               ELSE saved
          ELSE m
    IN  IF opened.h.flag_door_open = 0 /\ opened.h.heater_level_prev # 255
        THEN [heater_set_level(opened, opened.h.heater_level_prev)
                 EXCEPT !.h.heater_level_prev = 255]
        ELSE opened

\* heater_set_coil_state for coil c: OFF and ON write the pin and clear the
\* PWM timestamp; PWM (heater_update_pwm_coil) takes a timestamp on its first
\* call and later toggles the pin when PWM_ON_SECONDS have elapsed
heater_set_coil_state(m, c, elapsed) ==
    CASE m.h.coils[c].state = "COIL_OFF" ->
            [m EXCEPT !.h.coils[c].time_pwm_last = 0, !.gpio[c] = 0]
      [] m.h.coils[c].state = "COIL_ON" ->
            [m EXCEPT !.h.coils[c].time_pwm_last = 0, !.gpio[c] = 1]
      [] m.h.coils[c].state = "COIL_PWM" ->
            IF m.h.coils[c].time_pwm_last = 0
            THEN [m EXCEPT !.h.coils[c].time_pwm_last = 1]
            ELSE IF elapsed THEN [m EXCEPT !.gpio[c] = 1 - @] ELSE m

\* heater_set_state: the door check, then the three coils in order (each
\* intermediate state is bound as the element of a set, so that it is
\* computed once)
heater_set_state(m, elapsed) ==
    CHOOSE after \in
        { heater_set_coil_state(c2, 3, elapsed) :
            c2 \in { heater_set_coil_state(c1, 2, elapsed) :
                c1 \in { heater_set_coil_state(door, 1, elapsed) :
                    door \in { heater_check_door_state(m) } } } } : TRUE

\* heater_turn_off: level 0, then the default parameters (no pin is written)
heater_turn_off(m) ==
    heater_set_default_params(heater_set_level(m, 0))

\* heater_gradient_to_q16: ((int32_t)gradient_per_hour << 16) / 3600, negated
\* for a cooling step
heater_gradient_to_q16(gradient_per_hour, is_negative) ==
    LET result == DivTrunc(gradient_per_hour * TwoTo16, 3600)
    IN  IF is_negative # 0 THEN -result ELSE result

\* heater_stop_program that leaves current_step and target_temperature
heater_stop_program_KeepStep(m, elapsed) ==
    heater_set_state(
        heater_set_level(
            [m EXCEPT !.h.gradient_control_enabled = 0,
                      !.h.active_program = NULL],
            0),
        elapsed)

\* heater_stop_program
heater_stop_program(m, elapsed) ==
    heater_set_state(
        heater_set_level(
            [m EXCEPT !.h.gradient_control_enabled = 0,
                      !.h.active_program = NULL,
                      !.h.current_step = 0,
                      !.h.target_temperature = 0],
            0),
        elapsed)

\* heater_start_program that attaches the program before it tests the length
heater_start_program_AttachFirst(m, program) ==
    IF program = NULL \/ m.h.hgc = NULL
    THEN [ret |-> "HAL_ERROR", m |-> m]
    ELSE IF program_list[program].length = 0
    THEN [ret |-> "HAL_ERROR",
          m   |-> [m EXCEPT !.h.active_program = program, !.h.current_step = 0]]
    ELSE
      LET prog == program_list[program]
          gradient_q16 == heater_gradient_to_q16(prog.gradient[1],
                                                 prog.gradient_negative[1])
      IN  [ret |-> "HAL_OK",
           m   |-> [m EXCEPT !.h.active_program = program,
                             !.h.current_step = 0,
                             !.h.target_temperature = prog.temperature[1],
                             !.gc = GradientController_Reset(
                                        GradientController_SetSetpoint(@, gradient_q16)),
                             !.h.gradient_control_enabled = 1]]

\* heater_start_program(hheater, program): the HAL status and the state after
heater_start_program(m, program) ==
    IF program = NULL \/ m.h.hgc = NULL
    THEN [ret |-> "HAL_ERROR", m |-> m]
    ELSE IF program_list[program].length = 0
    THEN [ret |-> "HAL_ERROR", m |-> m]
    ELSE
      LET prog == program_list[program]
          gradient_q16 == heater_gradient_to_q16(prog.gradient[1],
                                                 prog.gradient_negative[1])
      IN  [ret |-> "HAL_OK",
           m   |-> [m EXCEPT !.h.active_program = program,
                             !.h.current_step = 0,
                             !.h.target_temperature = prog.temperature[1],
                             !.gc = GradientController_Reset(
                                        GradientController_SetSetpoint(@, gradient_q16)),
                             !.h.gradient_control_enabled = 1]]

\* heater_advance_program_step that loads the new step's target temperature
\* but not its gradient setpoint
heater_advance_program_step_KeepSetpoint(m, elapsed) ==
    IF m.h.active_program = NULL
    THEN m
    ELSE
      LET program == program_list[m.h.active_program]
          step    == (m.h.current_step + 1) % 256
          m1      == [m EXCEPT !.h.current_step = step]
      IN  IF step >= program.length
          THEN heater_stop_program(m1, elapsed)
          ELSE [m1 EXCEPT !.h.target_temperature = program.temperature[step + 1]]

\* heater_advance_program_step that begins again at the first step when the
\* last step is complete
heater_advance_program_step_Repeat(m, elapsed) ==
    IF m.h.active_program = NULL
    THEN m
    ELSE
      LET program == program_list[m.h.active_program]
          step    == ((m.h.current_step + 1) % 256) % program.length
      IN  [m EXCEPT !.h.current_step = step,
                    !.h.target_temperature = program.temperature[step + 1],
                    !.gc = GradientController_SetSetpoint(@,
                              heater_gradient_to_q16(
                                  program.gradient[step + 1],
                                  program.gradient_negative[step + 1]))]

\* heater_advance_program_step
heater_advance_program_step(m, elapsed) ==
    IF m.h.active_program = NULL
    THEN m
    ELSE
      LET program == program_list[m.h.active_program]
          step    == (m.h.current_step + 1) % 256
          m1      == [m EXCEPT !.h.current_step = step]
      IN  IF step >= program.length
          THEN heater_stop_program(m1, elapsed)
          ELSE [m1 EXCEPT !.h.target_temperature = program.temperature[step + 1],
                          !.gc = GradientController_SetSetpoint(@,
                                    heater_gradient_to_q16(
                                        program.gradient[step + 1],
                                        program.gradient_negative[step + 1]))]

(***************************************************************************)
(* The tick: heater_on_interupt, called from the RTC alarm interrupt.      *)
(***************************************************************************)
\* the float32 nearest to the integer x (round to nearest, ties to even);
\* integers below 2^24 in magnitude are float32 values
RoundF32(x) ==
    LET mag  == IF x >= 0 THEN x ELSE -x
        ulp  == IF mag < 2 ^ 24 THEN 1 ELSE IF mag < 2 ^ 25 THEN 2
                ELSE IF mag < 2 ^ 26 THEN 4 ELSE 8
        q    == mag \div ulp
        r    == mag % ulp
        near == IF 2 * r < ulp THEN q * ulp
                ELSE IF 2 * r > ulp THEN (q + 1) * ulp
                ELSE IF q % 2 = 0 THEN q * ulp ELSE (q + 1) * ulp
    IN  IF x >= 0 THEN near ELSE -near

\* the outcomes of converting an out-of-range float to int16_t, which C
\* leaves undefined: truncation of the 32-bit conversion, or saturation
CastOutcomes == {"wrap", "saturate"}

\* the default deadband of the temperature loop, in millidegrees
TC_DEFAULT_T_BAND_MDEG == 5000

\* (int16_t)x for an integral float value x
FloatToInt16(x, cast) ==
    IF x \in -32768 .. 32767 THEN x
    ELSE IF cast = "wrap" THEN Wrap16(x) ELSE Sat16(x)

\* the step-completion test of heater_on_interupt: whole degrees, compared
\* as int16_t (temp_float is in quarters of a degree)
TargetReached(m, temp_float, cast) ==
    LET program      == program_list[m.h.active_program]
        current_temp == FloatToInt16(DivTrunc(temp_float, 4), cast)
        target       == Wrap16(m.h.target_temperature)
        is_heating   == program.gradient_negative[m.h.current_step + 1] = 0
    IN  \/ is_heating /\ current_temp >= target
        \/ ~is_heating /\ current_temp <= target

\* heater_on_interupt.  time_counter is left out: it is incremented first, so
\* the sampling test (1 <= time_counter) passes on every call.  The result
\* holds the state after the call and the locals of the control path (ran
\* tells whether the gradient-control branch was taken).  m0 (the state
\* after the sensor read), T_mdeg, upd (the result of the controller update)
\* and m1 (the state after heater_set_state) are bound as the elements of
\* sets, so that each is computed once.
heater_on_interupt(m, spi_ok, raw_payload, cast, elapsed) ==
    CHOOSE returned \in
      { LET temp_float == max31855_get_temp_f32(m0.payload)
        IN  IF m0.h.gradient_control_enabled # 0 /\ m0.h.hgc # NULL
            THEN
              CHOOSE result \in
                { LET level == GradientController_GetHeaterLevel(upd.u)
                  IN  CHOOSE r \in
                        { LET m2 == IF m1.h.active_program # NULL
                                       /\ TargetReached(m1, temp_float, cast)
                                    THEN heater_advance_program_step(m1, elapsed)
                                    ELSE m1
                          IN  [m |-> m2, ran |-> TRUE, T_mdeg |-> T_mdeg,
                               u |-> upd.u, level |-> level] :
                          m1 \in { heater_set_state(
                                       heater_set_level(
                                           [m0 EXCEPT !.gc = upd.gc], level),
                                       elapsed) } } : TRUE :
                  T_mdeg \in { FloatToInt16(RoundF32(temp_float * 250), cast) },
                  upd \in { GradientController_Update(
                                m0.gc,
                                FloatToInt16(RoundF32(temp_float * 250), cast)) }
                } : TRUE
            ELSE  [m |-> m0, ran |-> FALSE, T_mdeg |-> 0, u |-> 0, level |-> 0] :
        m0 \in { [m EXCEPT !.payload =
                     max31855_read_data(m.payload, spi_ok, raw_payload).payload] }
      } : TRUE

(***************************************************************************)
(* flash_storage.h: the two record pages, and the checksum.  A 32-bit      *)
(* unsigned value is the pair <<high half-word, low half-word>>; a page is *)
(* the sequence of the half-words a record occupies, lowest address first. *)
(***************************************************************************)
SETTINGS_MAGIC == <<21317, 21553>>      \* 0x53455431
PROGRAMS_MAGIC == <<20562, 18225>>      \* 0x50524731
ERASED_HALFWORD == 65535

RECURSIVE BitXor(_, _)
BitXor(a, b) ==
    IF a = 0 THEN b
    ELSE IF b = 0 THEN a
    ELSE 2 * BitXor(a \div 2, b \div 2) + ((a + b) % 2)

\* the exclusive or of two half-words, four bits at a time
NibbleXor == [a \in 0 .. 15 |-> [b \in 0 .. 15 |-> BitXor(a, b)]]

Xor16(a, b) ==
    NibbleXor[a % 16][b % 16]
    + 16 * NibbleXor[(a \div 16) % 16][(b \div 16) % 16]
    + 256 * NibbleXor[(a \div 256) % 16][(b \div 256) % 16]
    + 4096 * NibbleXor[a \div 4096][b \div 4096]

\* one bit of the reflected CRC-32 (polynomial 0xEDB88320), n times
RECURSIVE CrcBitSteps(_, _)
CrcBitSteps(crc, n) ==
    IF n = 0 THEN crc
    ELSE LET hi == crc[1] \div 2
             lo == (crc[2] \div 2) + (crc[1] % 2) * 32768
         IN  CrcBitSteps(IF crc[2] % 2 = 1
                         THEN <<BitXor(hi, 60856), BitXor(lo, 33568)>>
                         ELSE <<hi, lo>>, n - 1)

CrcTable == [i \in 0 .. 255 |-> CrcBitSteps(<<0, i>>, 8)]

CrcByte(crc, byte) ==
    LET t == CrcTable[Xor16(crc[2] % 256, byte)]
    IN  <<Xor16(t[1], crc[1] \div 256),
          Xor16(t[2], (crc[2] \div 256) + (crc[1] % 256) * 256)>>

\* the checksum register after the bytes of words[from .. to], low byte first
RECURSIVE CrcWords(_, _, _, _)
CrcWords(crc, words, from, to) ==
    IF from > to THEN crc
    ELSE IF from = to
    THEN CrcByte(CrcByte(crc, words[from] % 256), words[from] \div 256)
    ELSE LET mid  == (from + to) \div 2
             left == CrcWords(crc, words, from, mid)
         IN  IF left[1] \in 0 .. 65535
             THEN CrcWords(left, words, mid + 1, to)
             ELSE left

\* flash_compute_crc32 over the first size half-words of words
flash_compute_crc32(words, size) ==
    LET c == CrcWords(<<65535, 65535>>, words, 1, size)
    IN  <<65535 - c[1], 65535 - c[2]>>

\* flash_erase_page: every half-word of the page reads 0xFFFF afterwards
flash_erase_page(page) == [i \in 1 .. Len(page) |-> ERASED_HALFWORD]

\* flash_write_data on an erased page: the half-words are programmed in
\* address order; written is the number programmed when the call ends, all of
\* them unless the programming failed or the supply was lost
flash_write_data(page, data, written) ==
    [i \in 1 .. Len(page) |-> IF i <= written THEN data[i] ELSE page[i]]

\* flash_read_data: the bytes at the address
flash_read_data(page) == page

(***************************************************************************)
(* settings.c.  settings_data_t is a record of its fields; memcpy between  *)
(* the structure and a buffer goes through its memory layout, 16           *)
(* half-words with two bytes of padding before crc32.                      *)
(***************************************************************************)
DEFAULT_GC_KC == 100
DEFAULT_GC_TI_S == 60
DEFAULT_GC_TAW_S == 60
DEFAULT_GC_ALPHA_X100 == 85
DEFAULT_TC_KP == 61
DEFAULT_TC_T_BAND_DEG == 5
DEFAULT_CB_G_MIN_DEGPH == 100
DEFAULT_CB_HYST_DEGPH == 6
DEFAULT_CB_KB == 3000
DEFAULT_CB_U_MAX_PCT == 10
DEFAULT_SSR_WINDOW == 20
DEFAULT_SSR_MIN_SWITCH == 5

\* sizeof(settings_data_t) in half-words
SETTINGS_WORDS == 16

SettingsToWords(s) ==
    << s.magic[2], s.magic[1],
       s.gc_Kc, s.gc_Ti_s, s.gc_Taw_s, s.gc_alpha_x100,
       s.tc_Kp, s.tc_T_band_deg + 256 * s.reserved1,
       s.cb_g_min_degph, s.cb_hysteresis_degph + 256 * s.cb_u_brake_max_pct,
       s.cb_Kb, s.ssr_window_seconds + 256 * s.ssr_min_switch,
       s.reserved2, s.padding,
       s.crc32[2], s.crc32[1] >>

WordsToSettings(w) ==
    [magic |-> <<w[2], w[1]>>,
     gc_Kc |-> w[3], gc_Ti_s |-> w[4], gc_Taw_s |-> w[5],
     gc_alpha_x100 |-> w[6],
     tc_Kp |-> w[7], tc_T_band_deg |-> w[8] % 256, reserved1 |-> w[8] \div 256,
     cb_g_min_degph |-> w[9],
     cb_hysteresis_degph |-> w[10] % 256,
     cb_u_brake_max_pct |-> w[10] \div 256,
     cb_Kb |-> w[11],
     ssr_window_seconds |-> w[12] % 256, ssr_min_switch |-> w[12] \div 256,
     reserved2 |-> w[13], padding |-> w[14],
     crc32 |-> <<w[16], w[15]>>]

\* the zero-initialised global
ZeroSettings == WordsToSettings([i \in 1 .. SETTINGS_WORDS |-> 0])

settings_reset_defaults ==
    [ZeroSettings EXCEPT
        !.magic = SETTINGS_MAGIC,
        !.gc_Kc = DEFAULT_GC_KC,
        !.gc_Ti_s = DEFAULT_GC_TI_S,
        !.gc_Taw_s = DEFAULT_GC_TAW_S,
        !.gc_alpha_x100 = DEFAULT_GC_ALPHA_X100,
        !.tc_Kp = DEFAULT_TC_KP,
        !.tc_T_band_deg = DEFAULT_TC_T_BAND_DEG,
        !.cb_g_min_degph = DEFAULT_CB_G_MIN_DEGPH,
        !.cb_hysteresis_degph = DEFAULT_CB_HYST_DEGPH,
        !.cb_Kb = DEFAULT_CB_KB,
        !.cb_u_brake_max_pct = DEFAULT_CB_U_MAX_PCT,
        !.ssr_window_seconds = DEFAULT_SSR_WINDOW,
        !.ssr_min_switch = DEFAULT_SSR_MIN_SWITCH,
        !.crc32 = <<0, 0>>]

\* settings_validate without the check of gc_Kc
settings_validate_SkipKc(s) ==
    IF s.gc_Ti_s < 10 \/ s.gc_Ti_s > 300 THEN 0
    ELSE IF s.gc_Taw_s < 10 \/ s.gc_Taw_s > 300 THEN 0
    ELSE IF s.gc_alpha_x100 < 50 \/ s.gc_alpha_x100 > 99 THEN 0
    ELSE IF s.tc_Kp < 10 \/ s.tc_Kp > 500 THEN 0
    ELSE IF s.tc_T_band_deg < 1 \/ s.tc_T_band_deg > 20 THEN 0
    ELSE IF s.cb_g_min_degph < 50 \/ s.cb_g_min_degph > 300 THEN 0
    ELSE IF s.cb_hysteresis_degph < 1 \/ s.cb_hysteresis_degph > 30 THEN 0
    ELSE IF s.cb_Kb < 100 \/ s.cb_Kb > 10000 THEN 0
    ELSE IF s.cb_u_brake_max_pct < 1 \/ s.cb_u_brake_max_pct > 50 THEN 0
    ELSE IF s.ssr_window_seconds < 10 \/ s.ssr_window_seconds > 60 THEN 0
    ELSE IF s.ssr_min_switch < 1 \/ s.ssr_min_switch > 15 THEN 0
    ELSE 1

settings_validate(s) ==
    IF s.gc_Kc < 1 \/ s.gc_Kc > 500 THEN 0
    ELSE IF s.gc_Ti_s < 10 \/ s.gc_Ti_s > 300 THEN 0
    ELSE IF s.gc_Taw_s < 10 \/ s.gc_Taw_s > 300 THEN 0
    ELSE IF s.gc_alpha_x100 < 50 \/ s.gc_alpha_x100 > 99 THEN 0
    ELSE IF s.tc_Kp < 10 \/ s.tc_Kp > 500 THEN 0
    ELSE IF s.tc_T_band_deg < 1 \/ s.tc_T_band_deg > 20 THEN 0
    ELSE IF s.cb_g_min_degph < 50 \/ s.cb_g_min_degph > 300 THEN 0
    ELSE IF s.cb_hysteresis_degph < 1 \/ s.cb_hysteresis_degph > 30 THEN 0
    ELSE IF s.cb_Kb < 100 \/ s.cb_Kb > 10000 THEN 0
    ELSE IF s.cb_u_brake_max_pct < 1 \/ s.cb_u_brake_max_pct > 50 THEN 0
    ELSE IF s.ssr_window_seconds < 10 \/ s.ssr_window_seconds > 60 THEN 0
    ELSE IF s.ssr_min_switch < 1 \/ s.ssr_min_switch > 15 THEN 0
    ELSE 1

\* the checksum settings_load and settings_save compute: over the structure
\* with crc32 set to 0, sizeof - sizeof(uint32_t) bytes
SettingsCrc(s) ==
    flash_compute_crc32(SettingsToWords([s EXCEPT !.crc32 = <<0, 0>>]),
                        SETTINGS_WORDS - 2)

\* settings_load that accepts any record with the magic
settings_load_MagicOnly(g, page) ==
    LET temp == WordsToSettings(flash_read_data(page))
    IN  IF temp.magic # SETTINGS_MAGIC
        THEN [ret |-> "HAL_ERROR", g_settings |-> g]
        ELSE [ret |-> "HAL_OK", g_settings |-> temp]

\* settings_load: the status returned and g_settings afterwards.  The record
\* is copied to g_settings once magic and CRC have passed, before the bounds
\* are validated
settings_load(g, page) ==
    LET temp == WordsToSettings(flash_read_data(page))
    IN  IF temp.magic # SETTINGS_MAGIC
        THEN [ret |-> "HAL_ERROR", g_settings |-> g]
        ELSE IF temp.crc32 # SettingsCrc(temp)
        THEN [ret |-> "HAL_ERROR", g_settings |-> g]
        ELSE IF settings_validate(temp) = 0
        THEN [ret |-> "HAL_ERROR", g_settings |-> temp]
        ELSE [ret |-> "HAL_OK", g_settings |-> temp]

\* settings_save: erase_ok is the result of flash_erase_page, written the
\* number of half-words flash_write_data programs
settings_save(g, page, erase_ok, written) ==
    LET m == [g EXCEPT !.magic = SETTINGS_MAGIC]
        s == [m EXCEPT !.crc32 = SettingsCrc(m)]
    IN  IF ~erase_ok
        THEN [ret |-> "HAL_ERROR", g_settings |-> s, page |-> page]
        ELSE [ret |-> IF written = SETTINGS_WORDS THEN "HAL_OK"
                      ELSE "HAL_ERROR",
              g_settings |-> s,
              page |-> flash_write_data(flash_erase_page(page),
                                        SettingsToWords(s), written)]

\* settings_init without the fall-back to the defaults
settings_init_NoDefaults(g, page) ==
    [ret |-> "HAL_OK", g_settings |-> settings_load(g, page).g_settings]

settings_init(g, page) ==
    LET r == settings_load(g, page)
    IN  IF r.ret = "HAL_OK"
        THEN [ret |-> "HAL_OK", g_settings |-> r.g_settings]
        ELSE [ret |-> "HAL_OK", g_settings |-> settings_reset_defaults]

(***************************************************************************)
(* programs.c.  programs_data_t in its memory layout: magic, count and     *)
(* three reserved bytes, ten program_t of 31 half-words each (length and   *)
(* a byte of padding, then the three arrays), crc32.                       *)
(***************************************************************************)
MAX_PROGRAMS == 10
MAX_PROGRAM_SEQ_LENGTH == 10

\* sizeof(program_t) and sizeof(programs_data_t) in half-words
PROGRAM_WORDS == 31
PROGRAMS_WORDS == 316

\* a program_t from its length and the leading entries of its arrays
Program(length, gradient, gradient_negative, temperature) ==
    LET Pad(a) == [i \in 1 .. MAX_PROGRAM_SEQ_LENGTH |->
                      IF i <= Len(a) THEN a[i] ELSE 0]
    IN  [length |-> length, padding |-> 0, gradient |-> Pad(gradient),
         gradient_negative |-> Pad(gradient_negative),
         temperature |-> Pad(temperature)]

ProgramToWords(p) ==
    <<p.length + 256 * p.padding>> \o p.gradient \o p.gradient_negative
        \o p.temperature

WordsToProgram(w, at) ==
    [length |-> w[at] % 256, padding |-> w[at] \div 256,
     gradient |-> [i \in 1 .. MAX_PROGRAM_SEQ_LENGTH |-> w[at + i]],
     gradient_negative |->
        [i \in 1 .. MAX_PROGRAM_SEQ_LENGTH |-> w[at + 10 + i]],
     temperature |-> [i \in 1 .. MAX_PROGRAM_SEQ_LENGTH |-> w[at + 20 + i]]]

ProgramsToWords(d) ==
    [i \in 1 .. PROGRAMS_WORDS |->
        IF i = 1 THEN d.magic[2]
        ELSE IF i = 2 THEN d.magic[1]
        ELSE IF i = 3 THEN d.count + 256 * d.reserved[1]
        ELSE IF i = 4 THEN d.reserved[2] + 256 * d.reserved[3]
        ELSE IF i = PROGRAMS_WORDS - 1 THEN d.crc32[2]
        ELSE IF i = PROGRAMS_WORDS THEN d.crc32[1]
        ELSE ProgramToWords(d.programs[((i - 5) \div PROGRAM_WORDS) + 1])
                [((i - 5) % PROGRAM_WORDS) + 1]]

WordsToPrograms(w) ==
    [magic |-> <<w[2], w[1]>>,
     count |-> w[3] % 256,
     reserved |-> <<w[3] \div 256, w[4] % 256, w[4] \div 256>>,
     programs |-> [k \in 1 .. MAX_PROGRAMS |->
                      WordsToProgram(w, 5 + (k - 1) * PROGRAM_WORDS)],
     crc32 |-> <<w[PROGRAMS_WORDS], w[PROGRAMS_WORDS - 1]>>]

ZeroProgram == Program(0, <<>>, <<>>, <<>>)

\* the zero-initialised global
ZeroPrograms ==
    [magic |-> <<0, 0>>, count |-> 0, reserved |-> <<0, 0, 0>>,
     programs |-> [k \in 1 .. MAX_PROGRAMS |-> ZeroProgram],
     crc32 |-> <<0, 0>>]

default_program_1 ==
    Program(3, <<288, 300, 150>>, <<0, 1, 1>>, <<200, 80, 120>>)
default_program_2 ==
    Program(5, <<80, 60, 150, 300, 80>>, <<0, 1, 0, 0, 1>>,
            <<15, 80, 120, 300, 600>>)
default_program_3 ==
    Program(2, <<300, 150>>, <<0, 0>>, <<300, 80>>)

programs_reset_defaults ==
    [ZeroPrograms EXCEPT
        !.magic = PROGRAMS_MAGIC,
        !.count = 3,
        !.programs[1] = default_program_1,
        !.programs[2] = default_program_2,
        !.programs[3] = default_program_3,
        !.crc32 = <<0, 0>>]

ProgramsCrc(d) ==
    flash_compute_crc32(ProgramsToWords([d EXCEPT !.crc32 = <<0, 0>>]),
                        PROGRAMS_WORDS - 2)

\* programs_load: the status returned and g_programs afterwards
programs_load(g, page) ==
    LET temp == WordsToPrograms(flash_read_data(page))
    IN  IF temp.magic # PROGRAMS_MAGIC
        THEN [ret |-> "HAL_ERROR", g_programs |-> g]
        ELSE IF temp.crc32 # ProgramsCrc(temp)
        THEN [ret |-> "HAL_ERROR", g_programs |-> g]
        ELSE IF temp.count > MAX_PROGRAMS
        THEN [ret |-> "HAL_ERROR", g_programs |-> g]
        ELSE [ret |-> "HAL_OK", g_programs |-> temp]

\* programs_save: erase_ok is the result of flash_erase_page, written the
\* number of half-words flash_write_data programs
programs_save(g, page, erase_ok, written) ==
    LET m == [g EXCEPT !.magic = PROGRAMS_MAGIC,
                       !.count = IF @ > MAX_PROGRAMS THEN MAX_PROGRAMS ELSE @]
        d == [m EXCEPT !.crc32 = ProgramsCrc(m)]
    IN  IF ~erase_ok
        THEN [ret |-> "HAL_ERROR", g_programs |-> d, page |-> page]
        ELSE [ret |-> IF written = PROGRAMS_WORDS THEN "HAL_OK"
                      ELSE "HAL_ERROR",
              g_programs |-> d,
              page |-> flash_write_data(flash_erase_page(page),
                                        ProgramsToWords(d), written)]

programs_init(g, page) ==
    LET r == programs_load(g, page)
    IN  IF r.ret = "HAL_OK"
        THEN [ret |-> "HAL_OK", g_programs |-> r.g_programs]
        ELSE [ret |-> "HAL_OK", g_programs |-> programs_reset_defaults]

\* a pointer to a program_t: the empty sequence is NULL, <<p>> points to p
NullProgram == <<>>

\* programs_add that stores the program in the last slot of a full list
programs_add_OverwriteLast(g, program) ==
    IF program = NullProgram THEN [ret |-> -1, g_programs |-> g]
    ELSE IF g.count >= MAX_PROGRAMS
    THEN [ret |-> -1,
          g_programs |-> [g EXCEPT !.programs[MAX_PROGRAMS] = program[1]]]
    ELSE [ret |-> g.count,
          g_programs |-> [g EXCEPT !.programs[g.count + 1] = program[1],
                                   !.count = g.count + 1]]

\* programs_add: the index returned, -1 for NULL and when the set is full
programs_add(g, program) ==
    IF program = NullProgram THEN [ret |-> -1, g_programs |-> g]
    ELSE IF g.count >= MAX_PROGRAMS THEN [ret |-> -1, g_programs |-> g]
    ELSE [ret |-> g.count,
          g_programs |-> [g EXCEPT !.programs[g.count + 1] = program[1],
                                   !.count = g.count + 1]]

\* programs_delete that fills the gap with the last program instead of
\* shifting the programs behind it
programs_delete_MoveLast(g, index) ==
    IF index >= g.count THEN [ret |-> "HAL_ERROR", g_programs |-> g]
    ELSE [ret |-> "HAL_OK",
          g_programs |->
            [g EXCEPT
                !.programs = [k \in 1 .. MAX_PROGRAMS |->
                                IF k = g.count THEN ZeroProgram
                                ELSE IF k - 1 = index
                                THEN g.programs[g.count]
                                ELSE g.programs[k]],
                !.count = g.count - 1]]

\* programs_delete: the programs behind index move down one slot, the last
\* used slot is cleared
programs_delete(g, index) ==
    IF index >= g.count THEN [ret |-> "HAL_ERROR", g_programs |-> g]
    ELSE [ret |-> "HAL_OK",
          g_programs |->
            [g EXCEPT
                !.programs = [k \in 1 .. MAX_PROGRAMS |->
                                IF k - 1 < index THEN g.programs[k]
                                ELSE IF k - 1 < g.count - 1
                                THEN g.programs[k + 1]
                                ELSE IF k - 1 = g.count - 1 THEN ZeroProgram
                                ELSE g.programs[k]],
                !.count = g.count - 1]]

(***************************************************************************)
(* Settings menu (Core/Src/ui.c).  A parameter value is the float the menu *)
(* holds, kept as an integer: the gains, times and percentages in their    *)
(* own unit, alpha in hundredths.  The values the STATUS category shows    *)
(* are display only and left out.                                          *)
(***************************************************************************)
Events == {"BUT1", "BUT2", "BUT3", "BUT4", "ENC_BUT", "ENC_UP", "ENC_DOWN"}

SETTINGS_NUM_CATEGORIES == 5
SETTINGS_CAT_INNER_LOOP == 0
SETTINGS_CAT_SSR_TIMING == 3
SETTINGS_CAT_STATUS == 4

\* a ui_setting_param_t
Param(value, min_val, max_val, inc_btn, inc_enc) ==
    [value |-> value, min_val |-> min_val, max_val |-> max_val,
     inc_btn |-> inc_btn, inc_enc |-> inc_enc]

\* ui_init_settings: the defaults and the SETTINGS_*_MIN, _MAX, _INC_BTN and
\* _INC_ENC of ui.h
ui_init_settings ==
    [cur_category |-> 0, edit_mode |-> 0,
     categories |->
        [c \in 0 .. SETTINGS_NUM_CATEGORIES - 1 |->
            [cur_index |-> 0,
             length |-> CASE c = 0 -> 4 [] c = 1 -> 2 [] c = 2 -> 4
                          [] c = 3 -> 2 [] c = 4 -> 4,
             params |->
                CASE c = 0 -> << Param(100, 1, 500, 1, 10),
                                 Param(60, 10, 300, 1, 10),
                                 Param(60, 10, 300, 1, 10),
                                 Param(85, 50, 99, 1, 5) >>
                  [] c = 1 -> << Param(61, 10, 500, 1, 10),
                                 Param(5, 1, 20, 1, 1) >>
                  [] c = 2 -> << Param(100, 50, 300, 5, 10),
                                 Param(6, 1, 30, 1, 5),
                                 Param(3000, 100, 10000, 100, 500),
                                 Param(10, 1, 50, 1, 5) >>
                  [] c = 3 -> << Param(20, 10, 60, 1, 5),
                                 Param(5, 1, 15, 1, 1) >>
                  [] c = 4 -> << Param(0, 0, 0, 0, 0), Param(0, 0, 0, 0, 0),
                                 Param(0, 0, 0, 0, 0), Param(0, 0, 0, 0, 0) >>]]]

\* the value of parameter index (0-based) of category c
ParamValue(u, c, index) == u.settings.categories[c].params[index + 1].value

\* the assignments of ui_apply_all_settings in program order.  hheater.htc and
\* hheater.hcb are never set by heater.c, so the outer loop and the cooling
\* brake are skipped; the inner loop is skipped while hheater.hgc is NULL.
\* st holds the controller gc and hheater.ssr.  Ts_over_Ti and Ts_over_Taw are
\* the fields pid.h names Ti_inv_Ts and Taw_inv_Ts ("Pre-computed: Ts / Ti").
APPLY_WRITES == 7

ui_apply_write(k, u, st, h) ==
    LET gc == st.gc
        inner == h.hgc # NULL
    IN  CASE k = 1 /\ inner ->
                [st EXCEPT !.gc.Kc = ParamValue(u, 0, 0) * 65536]
          [] k = 2 /\ inner ->
                [st EXCEPT !.gc.Ti_inv_Ts =
                    (gc.Ts_ms * 65536) \div (ParamValue(u, 0, 1) * 1000)]
          [] k = 3 /\ inner ->
                [st EXCEPT !.gc.Taw_inv_Ts =
                    (gc.Ts_ms * 65536) \div (ParamValue(u, 0, 2) * 1000)]
          [] k = 4 /\ inner ->
                [st EXCEPT !.gc.alpha = (ParamValue(u, 0, 3) * 65536) \div 100]
          [] k = 5 /\ inner ->
                [st EXCEPT !.gc.one_minus_alpha = Q16_ONE - gc.alpha]
          [] k = 6 ->
                [st EXCEPT !.ssr.window_seconds = ParamValue(u, 3, 0)]
          [] k = 7 ->
                [st EXCEPT !.ssr.min_switch_seconds = ParamValue(u, 3, 1)]
          [] OTHER -> st

\* the state after the first k assignments
RECURSIVE ui_apply_writes(_, _, _, _)
ui_apply_writes(k, u, st, h) ==
    IF k = 0 THEN st
    ELSE ui_apply_write(k, u, ui_apply_writes(k - 1, u, st, h), h)

\* ui_apply_all_settings
ui_apply_all_settings(u, st, h) == ui_apply_writes(APPLY_WRITES, u, st, h)

\* ui_update_settings_params: the new handle, and whether BUT4 has called
\* ui_apply_all_settings
ui_update_settings_params(u, event, cat_index, back_state) ==
    LET cat   == u.settings.categories[cat_index]
        param == cat.params[cat.cur_index + 1]
        edit  == u.settings.edit_mode # 0 /\ cat_index # SETTINGS_CAT_STATUS
        set(v)   == [u EXCEPT !.settings.categories[cat_index]
                                   .params[cat.cur_index + 1].value = v]
        index(i) == [u EXCEPT !.settings.categories[cat_index].cur_index = i]
        down  == LET inc == IF event = "BUT1" THEN param.inc_btn
                            ELSE param.inc_enc
                     v   == param.value - inc
                 IN  IF edit
                     THEN set(IF v < param.min_val THEN param.min_val ELSE v)
                     ELSE index(IF cat.cur_index = 0 THEN cat.length - 1
                                ELSE cat.cur_index - 1)
        up    == LET inc == IF event = "BUT2" THEN param.inc_btn
                            ELSE param.inc_enc
                     v   == param.value + inc
                 IN  IF edit
                     THEN set(IF v > param.max_val THEN param.max_val ELSE v)
                     ELSE index(IF cat.cur_index + 1 >= cat.length THEN 0
                                ELSE cat.cur_index + 1)
    IN  [ui |-> CASE event \in {"BUT1", "ENC_DOWN"} -> down
                  [] event \in {"BUT2", "ENC_UP"} -> up
                  [] event = "BUT3" ->
                        [u EXCEPT
                            !.settings.categories[cat_index].cur_index = 0,
                            !.settings.edit_mode = 0,
                            !.state = back_state]
                  [] event = "ENC_BUT" ->
                        IF cat_index # SETTINGS_CAT_STATUS
                        THEN [u EXCEPT !.settings.edit_mode =
                                          IF @ = 0 THEN 1 ELSE 0]
                        ELSE u
                  [] OTHER -> u,
         apply |-> event = "BUT4"]

\* ui_update_settings_categories
ui_update_settings_categories(u, event) ==
    LET cur == u.settings.cur_category
    IN  CASE event \in {"BUT1", "ENC_DOWN"} ->
                [u EXCEPT !.settings.cur_category =
                    IF cur = 0 THEN SETTINGS_NUM_CATEGORIES - 1 ELSE cur - 1]
          [] event \in {"BUT2", "ENC_UP"} ->
                [u EXCEPT !.settings.cur_category =
                    IF cur + 1 >= SETTINGS_NUM_CATEGORIES THEN 0 ELSE cur + 1]
          [] event = "BUT3" ->
                [u EXCEPT !.settings.cur_category = 0, !.state = "SETTINGS"]
          [] event = "ENC_BUT" ->
                [u EXCEPT
                    !.state = CASE cur = 0 -> "SETTINGS_INNER_LOOP"
                                [] cur = 1 -> "SETTINGS_OUTER_LOOP"
                                [] cur = 2 -> "SETTINGS_COOLING_BRAKE"
                                [] cur = 3 -> "SETTINGS_SSR_TIMING"
                                [] cur = 4 -> "SETTINGS_STATUS",
                    !.settings.categories[cur].cur_index = 0,
                    !.settings.edit_mode = 0]
          [] OTHER -> u

\* ui_update_settings, the SETTINGS main menu
ui_update_settings(u, event) ==
    CASE event \in {"BUT1", "ENC_DOWN"} -> [u EXCEPT !.state = "SETPOINT"]
      [] event \in {"BUT2", "ENC_UP"} -> [u EXCEPT !.state = "PROGRAMS"]
      [] event = "ENC_BUT" ->
            [u EXCEPT !.settings.cur_category = 0,
                      !.state = "SETTINGS_CATEGORIES"]
      [] OTHER -> u

\* the category a parameter screen edits
SettingsScreens ==
    [SETTINGS_INNER_LOOP |-> 0, SETTINGS_OUTER_LOOP |-> 1,
     SETTINGS_COOLING_BRAKE |-> 2, SETTINGS_SSR_TIMING |-> 3,
     SETTINGS_STATUS |-> 4]

\* ui_update_programs, the PROGRAMS main menu
ui_update_programs(u, event) ==
    CASE event \in {"BUT1", "ENC_DOWN"} -> [u EXCEPT !.state = "SETTINGS"]
      [] event \in {"BUT2", "ENC_UP"} -> [u EXCEPT !.state = "SETPOINT"]
      [] event = "ENC_BUT" -> [u EXCEPT !.state = "PROGRAMS_OVERVIEW"]
      [] OTHER -> u

\* ui_update_setpoint, the SETPOINT main menu
ui_update_setpoint(u, event) ==
    CASE event \in {"BUT1", "ENC_DOWN"} -> [u EXCEPT !.state = "PROGRAMS"]
      [] event \in {"BUT2", "ENC_UP"} -> [u EXCEPT !.state = "SETTINGS"]
      [] OTHER -> u

\* the screens of the main menu and of the settings menu
MenuScreens ==
    {"PROGRAMS", "SETPOINT", "SETTINGS", "SETTINGS_CATEGORIES"}
        \cup DOMAIN SettingsScreens

\* ui_update on a screen of MenuScreens, with the event ui_get_events
\* returned: the new handle, and whether ui_apply_all_settings was called
ui_update(u, event) ==
    LET v == [u EXCEPT !.last_state = u.state]
    IN  CASE u.state = "PROGRAMS" ->
                [ui |-> ui_update_programs(v, event), apply |-> FALSE]
          [] u.state = "SETPOINT" ->
                [ui |-> ui_update_setpoint(v, event), apply |-> FALSE]
          [] u.state = "SETTINGS" ->
                [ui |-> ui_update_settings(v, event), apply |-> FALSE]
          [] u.state = "SETTINGS_CATEGORIES" ->
                [ui |-> ui_update_settings_categories(v, event),
                 apply |-> FALSE]
          [] u.state \in DOMAIN SettingsScreens ->
                ui_update_settings_params(v, event, SettingsScreens[u.state],
                                          "SETTINGS_CATEGORIES")

\* a ui_program_t: the arrays have MAX_PROGRAM_SEQ_LENGTH entries, those the
\* initialiser does not name are 0
UiProgram(length, gradient, gradient_negative, temperature) ==
    LET pad(s) == [i \in 1 .. MAX_PROGRAM_SEQ_LENGTH |->
                      IF i <= Len(s) THEN s[i] ELSE 0]
    IN  [length |-> length, gradient |-> pad(gradient),
         gradient_negative |-> pad(gradient_negative),
         temperature |-> pad(temperature)]

\* initUI: the programs p1, p2 and p3, the default settings, the PROGRAMS
\* menu; with them the file-level variables of ui.c as they are initialised,
\* and written, the index of the slot of program_list last stored
initUI ==
    [state |-> "PROGRAMS", last_state |-> "NO_MENUPOINT", written |-> 2,
     programs |->
        [length |-> 3, cur_index |-> 0,
         program_list |->
            [i \in 0 .. MAX_PROGRAMS - 1 |->
                CASE i = 0 -> UiProgram(3, <<288, 300, 150>>, <<0, 1, 1>>,
                                        <<200, 80, 120>>)
                  [] i = 1 -> UiProgram(5, <<80, 60, 150, 300, 80>>,
                                        <<0, 1, 0, 0, 1>>,
                                        <<15, 80, 120, 300, 600>>)
                  [] i = 2 -> UiProgram(2, <<300, 150>>, <<0, 0>>, <<300, 80>>)
                  [] OTHER -> UiProgram(0, <<>>, <<>>, <<>>)]],
     settings |-> ui_init_settings,
     c_program |-> UiProgram(1, <<0>>, <<0>>, <<0>>),
     temp_counter |-> 0, temp_counter_single |-> 0, temp_sign |-> 0,
     scroll_counter |-> 0]

(***************************************************************************)
(* Programs menu (Core/Src/ui.c): the list of programs, the view of one,   *)
(* and the screens that create a program.  BUT4 on the list and on the     *)
(* view starts and stops the heater and leaves the handle as it is.        *)
(***************************************************************************)
MAX_TEMPERATURE == 1300
MAX_GRADIENT == 650
BUTTON_INC == 5
ENC_INC == 20
MIN_PROGRAM_SEQ_LENGTH == 1

\* the events ui_get_events returns: an event of the queue, or NO_EVENT
UiEvents == Events \cup {"NO_EVENT"}

\* ui_fill_program_values(&c_program)
ui_fill_program_values(u) ==
    LET sign == IF u.temp_counter = 0 /\ u.temp_sign = 1 THEN 0 ELSE u.temp_sign
        slot == ((u.scroll_counter - 1) \div 2) + 1
    IN  IF u.scroll_counter % 2 = 0
        THEN
          LET counter == IF sign = 1 THEN 0 ELSE u.temp_counter
              single  == IF MAX_PROGRAM_SEQ_LENGTH < u.temp_counter_single
                         THEN MAX_PROGRAM_SEQ_LENGTH
                         ELSE IF MIN_PROGRAM_SEQ_LENGTH > u.temp_counter_single
                         THEN MIN_PROGRAM_SEQ_LENGTH
                         ELSE u.temp_counter_single
              value   == IF MAX_TEMPERATURE < counter THEN MAX_TEMPERATURE
                         ELSE counter
          IN  IF u.scroll_counter = 0
              THEN [u EXCEPT !.temp_sign = 0, !.temp_counter = counter,
                             !.temp_counter_single = single,
                             !.c_program.length = single]
              ELSE [u EXCEPT !.temp_sign = 0, !.temp_counter = value,
                             !.c_program.temperature[slot] = value]
        ELSE
          LET value == IF MAX_GRADIENT < u.temp_counter THEN MAX_GRADIENT
                       ELSE u.temp_counter
          IN  [u EXCEPT !.temp_sign = sign, !.temp_counter = value,
                        !.c_program.gradient[slot] = value,
                        !.c_program.gradient_negative[slot] = sign]

\* c_program after the four assignments that reset it
ResetProgram(p) ==
    [p EXCEPT !.length = 1, !.gradient[1] = 0, !.gradient_negative[1] = 0,
              !.temperature[1] = 0]

\* ui_update_create_program_detailed.  program_list has the slots
\* 0 .. MAX_PROGRAMS - 1; a store to a slot beyond them lands outside the
\* array, and the handle keeps written, the index of the slot last stored.
ui_update_create_program_detailed(u, event) ==
    LET index  == u.programs.length
        length == u.c_program.length
        turn(sign) ==
            LET inc == IF event \in {"BUT1", "BUT2"} THEN BUTTON_INC ELSE ENC_INC
            IN  IF u.temp_counter = 0 \/ u.temp_sign = sign
                THEN [u EXCEPT !.temp_sign = sign,
                               !.temp_counter = (@ + inc) % 65536,
                               !.temp_counter_single = (@ + 1) % 65536]
                ELSE [u EXCEPT !.temp_counter = IF inc > @ THEN 0 ELSE @ - inc,
                               !.temp_counter_single = (@ + 65535) % 65536]
        handled ==
            CASE event \in {"BUT1", "ENC_DOWN"} -> turn(1)
              [] event \in {"BUT2", "ENC_UP"} -> turn(0)
              [] event = "BUT3" ->
                    [u EXCEPT !.state = "CREATE_PROGRAM",
                              !.c_program = ResetProgram(@),
                              !.scroll_counter = 0,
                              !.temp_counter_single = 0]
              [] event = "ENC_BUT" ->
                    IF length * 2 <= u.scroll_counter
                    THEN [u EXCEPT
                            !.programs.length = (@ + 1) % 256,
                            !.programs.program_list =
                                IF index < MAX_PROGRAMS
                                THEN [@ EXCEPT ![index] = u.c_program]
                                ELSE @,
                            !.written = index,
                            !.programs.cur_index = index,
                            !.c_program = ResetProgram(@),
                            !.scroll_counter = 0,
                            !.temp_counter = 0,
                            !.temp_counter_single = 0,
                            !.state = "PROGRAMS_OVERVIEW"]
                    ELSE [u EXCEPT !.scroll_counter = @ + 1,
                                   !.temp_counter = 0,
                                   !.temp_counter_single = 0]
              [] OTHER -> u
    IN  ui_fill_program_values(handled)

\* ui_update_create_program whose BUT3 returns to the list of programs
ui_update_create_program_BackToList(u, event) ==
    CASE event \in {"BUT1", "ENC_DOWN"} ->
            [u EXCEPT !.programs.cur_index = (u.programs.length + 255) % 256,
                      !.state = "PROGRAMS_OVERVIEW"]
      [] event \in {"BUT2", "ENC_UP"} ->
            [u EXCEPT !.programs.cur_index = 0, !.state = "PROGRAMS_OVERVIEW"]
      [] event = "BUT3" ->
            [u EXCEPT !.programs.cur_index = 0, !.state = "PROGRAMS_OVERVIEW"]
      [] event = "ENC_BUT" -> [u EXCEPT !.state = "CREATE_PROGRAM_DETAILED"]
      [] OTHER -> u

\* ui_update_create_program
ui_update_create_program(u, event) ==
    CASE event \in {"BUT1", "ENC_DOWN"} ->
            [u EXCEPT !.programs.cur_index = (u.programs.length + 255) % 256,
                      !.state = "PROGRAMS_OVERVIEW"]
      [] event \in {"BUT2", "ENC_UP"} ->
            [u EXCEPT !.programs.cur_index = 0, !.state = "PROGRAMS_OVERVIEW"]
      [] event = "BUT3" ->
            [u EXCEPT !.programs.cur_index = 0, !.state = "PROGRAMS"]
      [] event = "ENC_BUT" -> [u EXCEPT !.state = "CREATE_PROGRAM_DETAILED"]
      [] OTHER -> u

\* ui_update_program_detailed, without BUT4
ui_update_program_detailed(u, event) ==
    LET length  == u.programs.length
        index   == u.programs.cur_index
        steps   == IF index < MAX_PROGRAMS
                   THEN u.programs.program_list[index].length ELSE 0
        down(n) == IF u.scroll_counter = 0 THEN (n + 255) % 256
                   ELSE u.scroll_counter - 1
        up(n)   == IF n - 1 <= u.scroll_counter THEN 0
                   ELSE u.scroll_counter + 1
    IN  CASE event = "BUT1" -> [u EXCEPT !.scroll_counter = down(length)]
          [] event = "BUT2" -> [u EXCEPT !.scroll_counter = up(length)]
          [] event = "ENC_DOWN" -> [u EXCEPT !.scroll_counter = down(steps)]
          [] event = "ENC_UP" -> [u EXCEPT !.scroll_counter = up(steps)]
          [] event \in {"BUT3", "ENC_BUT"} ->
                [u EXCEPT !.state = "PROGRAMS_OVERVIEW", !.scroll_counter = 0]
          [] OTHER -> u

\* ui_update_programs_overview, without BUT4
ui_update_programs_overview(u, event) ==
    LET move(index, reset) ==
            IF index >= u.programs.length
            THEN [u EXCEPT !.programs.cur_index = IF reset THEN 0 ELSE index,
                           !.state = "CREATE_PROGRAM"]
            ELSE [u EXCEPT !.programs.cur_index = index]
    IN  CASE event = "BUT1" -> move((u.programs.cur_index + 255) % 256, FALSE)
          [] event \in {"BUT2", "ENC_UP"} ->
                move((u.programs.cur_index + 1) % 256, FALSE)
          [] event = "ENC_DOWN" -> move((u.programs.cur_index + 255) % 256, TRUE)
          [] event = "BUT3" ->
                [u EXCEPT !.programs.cur_index = 0, !.state = "PROGRAMS"]
          [] event = "ENC_BUT" -> [u EXCEPT !.state = "PROGRAM_DETAILED"]
          [] OTHER -> u

\* the screens of the programs menu
ProgramScreens ==
    {"PROGRAMS_OVERVIEW", "PROGRAM_DETAILED", "CREATE_PROGRAM",
     "CREATE_PROGRAM_DETAILED"}

\* ui_update on a screen of ProgramScreens with the event ui_get_events
\* returned; nothing is done for NO_EVENT on a screen already shown
ui_update_program_screens(u, event) ==
    LET v == [u EXCEPT !.last_state = u.state]
    IN  IF u.last_state = u.state /\ event = "NO_EVENT" THEN u
        ELSE CASE u.state = "PROGRAMS_OVERVIEW" ->
                    ui_update_programs_overview(v, event)
               [] u.state = "PROGRAM_DETAILED" ->
                    ui_update_program_detailed(v, event)
               [] u.state = "CREATE_PROGRAM" ->
                    ui_update_create_program(v, event)
               [] u.state = "CREATE_PROGRAM_DETAILED" ->
                    ui_update_create_program_detailed(v, event)

(***************************************************************************)
(* Event queue (Core/Src/event.c): a singly linked list of nodes taken     *)
(* from the heap.  A node address is 1 .. MaxNodes, NULL is 0; the heap    *)
(* maps an address to its node, or to FreeNode.                            *)
(***************************************************************************)
\* the content of an address no node lives at
FreeNode == [data |-> "free", next |-> NULL]

\* initEvent
initEvent ==
    [front |-> NULL, rear |-> NULL,
     heap |-> [a \in 1 .. MaxNodes |-> FreeNode]]

\* event_isEmpty
event_isEmpty(q) == IF q.front = NULL THEN 1 ELSE 0

\* event_enqueue that links the new node in front of the list
event_enqueue_AtFront(q, event, newNode) ==
    LET q1 == [q EXCEPT !.heap[newNode] = [data |-> event, next |-> q.front]]
    IN  IF event_isEmpty(q) = 1
        THEN [q1 EXCEPT !.front = newNode, !.rear = newNode]
        ELSE [q1 EXCEPT !.front = newNode]

\* event_enqueue with the node malloc returned at address newNode
event_enqueue(q, event, newNode) ==
    LET q1 == [q EXCEPT !.heap[newNode] = [data |-> event, next |-> NULL]]
    IN  IF event_isEmpty(q) = 1
        THEN [q1 EXCEPT !.front = newNode, !.rear = newNode]
        ELSE [q1 EXCEPT !.heap[q.rear].next = newNode, !.rear = newNode]

\* event_dequeue of a queue that is not empty: the event and the queue left
event_dequeue(q) ==
    LET temp  == q.front
        front == q.heap[temp].next
        q1    == [q EXCEPT !.front = front, !.heap[temp] = FreeNode]
    IN  [data |-> q.heap[temp].data,
         queue |-> IF front = NULL THEN [q1 EXCEPT !.rear = NULL] ELSE q1]

(***************************************************************************)
(* State.  hheater, gpio, hgc and htemp are the program's state; the       *)
(* other variables observe the run: the number of ticks so far, the last   *)
(* call with its inputs, result and locals, and three history flags.       *)
(***************************************************************************)
VARIABLES
    hheater,        \* Heater_HandleTypeDef_t
    gpio,           \* the level of the three coil pins
    hgc,            \* GradientController_HandleTypeDef_t
    htemp,          \* the parsed payload of MAX31855_HandleTypeDef_t
    ticks,          \* ticks executed
    last,           \* the last call
    fault_streak,   \* consecutive ticks of a running program with a sensor fault
    started_ever,   \* a heater_start_program has returned HAL_OK
    stopped,        \* heater_stop_program has returned, no successful start since
    flash,          \* the settings page and the programs page of the flash
    g_settings,     \* settings_data_t, the RAM working copy
    g_programs,     \* programs_data_t, the RAM working copy
    ui,             \* Ui_HandleTypeDef_t and the file-level variables of ui.c
    ssr,            \* hheater.ssr, the SSR timing the settings menu writes
    queue,          \* Event_Queue_HandleTypeDef_t, head first
    pc,             \* where the foreground stands inside a call it has begun
    history,        \* the events enqueued and the events dequeued, in order
    ui_events       \* events ui_update has handled

vars == <<hheater, gpio, hgc, htemp, ticks, last, fault_streak, started_ever,
          stopped, flash, g_settings, g_programs, ui, ssr, queue, pc,
          history, ui_events>>

\* the state of the persistent storage
storage == <<flash, g_settings, g_programs>>

\* the state of the user interface and of the foreground loop
frontend == <<ui, ssr, queue, pc, history, ui_events>>

\* a page as it leaves the factory
ErasedPage(words) == [i \in 1 .. words |-> ERASED_HALFWORD]

\* the machine state the C functions work on
Machine == [h |-> hheater, gpio |-> gpio, gc |-> hgc, payload |-> htemp]

\* the frames the sensor delivers: 19.75 C, 20 C, 40 C (above int16_t in
\* millidegrees), and 20.25 C with the fault bit and the open-circuit bit set
Frames ==
    { <<1, 60, 25, 0>>, <<1, 64, 25, 0>>, <<2, 128, 25, 0>>, <<1, 69, 25, 1>> }

\* the record of a call that is not a tick
Call(op, arg, ret) ==
    [op |-> op, arg |-> arg, ret |-> ret, sensor |-> "none", ran |-> FALSE,
     T_mdeg |-> 0, u |-> 0, level |-> 0]

\* the user interface after initUI and initEvent; hheater.ssr is part of the
\* zero-initialised heater handle and heater.c never writes it
InitUi ==
    /\ ui = initUI
    /\ ssr = [window_seconds |-> 0, min_switch_seconds |-> 0]
    /\ queue = initEvent
    /\ pc = [op |-> "idle"]
    /\ history = [enqueued |-> <<>>, dequeued |-> <<>>]
    /\ ui_events = 0

\* initHeater on the zero-initialised handles, GradientController_Init on the
\* controller; hheater.hgc is NULL until the controller is attached
InitHeater ==
    /\ hheater = heater_set_default_params(
                    [h |-> [heater_level |-> 0, heater_level_prev |-> 0,
                            flag_door_open |-> 0,
                            coils |-> [c \in Coils |->
                                [state |-> "COIL_OFF", time_pwm_last |-> 0]],
                            gradient_control_enabled |-> 0,
                            active_program |-> NULL, current_step |-> 0,
                            target_temperature |-> 0, hgc |-> NULL]]).h
    /\ gpio = [c \in Coils |-> 0]
    /\ hgc = GradientController_Init
    /\ htemp = ZeroPayload
    /\ ticks = 0
    /\ last = Call("boot", 0, "HAL_OK")
    /\ fault_streak = 0
    /\ started_ever = FALSE
    /\ stopped = FALSE

\* power-on with both pages as they leave the factory; the globals of
\* settings.c and programs.c are zero-initialised
Init ==
    /\ InitHeater
    /\ InitUi
    /\ flash = [settings |-> ErasedPage(SETTINGS_WORDS),
                programs |-> ErasedPage(PROGRAMS_WORDS)]
    /\ g_settings = ZeroSettings
    /\ g_programs = ZeroPrograms

\* the machine state m becomes the program's state
Becomes(m) ==
    /\ hheater' = m.h
    /\ gpio' = m.gpio
    /\ hgc' = m.gc
    /\ htemp' = m.payload

\* hheater.hgc = &hgc ("Must be set separately to enable gradient control")
AttachController ==
    /\ hheater.hgc = NULL
    /\ hheater' = [hheater EXCEPT !.hgc = 1]
    /\ last' = Call("attach", 0, "HAL_OK")
    /\ UNCHANGED <<storage, frontend, gpio, hgc, htemp, ticks, fault_streak, started_ever, stopped>>

\* the door sensor changes flag_door_open
SetDoorOpen(open) ==
    /\ hheater.flag_door_open # open
    /\ hheater' = [hheater EXCEPT !.flag_door_open = open]
    /\ last' = Call("door", open, "HAL_OK")
    /\ UNCHANGED <<storage, frontend, gpio, hgc, htemp, ticks, fault_streak, started_ever, stopped>>

\* the foreground calls heater_start_program
StartProgram(program) ==
    LET r == heater_start_program(Machine, program)
    IN  /\ Becomes(r.m)
        /\ last' = Call("start", program, r.ret)
        /\ fault_streak' = IF r.ret = "HAL_OK" THEN 0 ELSE fault_streak
        /\ started_ever' = (started_ever \/ r.ret = "HAL_OK")
        /\ stopped' = (stopped /\ r.ret # "HAL_OK")
        /\ UNCHANGED <<storage, frontend, ticks>>

\* the foreground calls heater_stop_program
StopProgram(elapsed) ==
    /\ elapsed => \E c \in Coils : hheater.coils[c].time_pwm_last # 0
    /\ Becomes(heater_stop_program(Machine, elapsed))
    /\ last' = Call("stop", 0, "HAL_OK")
    /\ stopped' = TRUE
    /\ UNCHANGED <<storage, frontend, ticks, fault_streak, started_ever>>

\* the foreground calls heater_turn_off
TurnOff ==
    /\ Becomes(heater_turn_off(Machine))
    /\ last' = Call("turn_off", 0, "HAL_OK")
    /\ UNCHANGED <<storage, frontend, ticks, fault_streak, started_ever, stopped>>

\* a sensor fault of a tick: the SPI read failed, or the frame has its fault bit
SensorFault(spi_ok, payload) == ~spi_ok \/ payload.fault = 1

\* the RTC alarm interrupt.  The inputs cast and elapsed are enumerated only
\* where the handler reads them: cast when the measured temperature is outside
\* int16_t in millidegrees, elapsed when a PWM timestamp is pending.
Tick(spi_ok, raw_payload, cast, elapsed) ==
    LET r       == heater_on_interupt(Machine, spi_ok, raw_payload, cast, elapsed)
        running == hheater.gradient_control_enabled # 0 /\ hheater.hgc # NULL
        fault   == SensorFault(spi_ok, r.m.payload)
        mdeg    == RoundF32(max31855_get_temp_f32(r.m.payload) * 250)
    IN  /\ ticks < MaxTicks
        /\ cast = "saturate" => running /\ mdeg \notin -32768 .. 32767
        /\ elapsed => \E c \in Coils : hheater.coils[c].time_pwm_last # 0
        /\ ticks' = ticks + 1
        /\ Becomes(r.m)
        /\ last' = [op |-> "tick", arg |-> 0, ret |-> "HAL_OK",
                    sensor |-> IF fault THEN "fault" ELSE "ok",
                    ran |-> r.ran, T_mdeg |-> r.T_mdeg, u |-> r.u,
                    level |-> r.level]
        /\ fault_streak' = IF running /\ fault THEN fault_streak + 1 ELSE 0
        /\ stopped' = (stopped \/ (hheater.active_program # NULL
                                   /\ r.m.h.active_program = NULL))
        /\ UNCHANGED <<storage, frontend, started_ever>>

Next ==
    \/ AttachController
    \/ \E open \in {0, 1} : SetDoorOpen(open)
    \/ \E program \in {NULL} \cup Programs : StartProgram(program)
    \/ \E elapsed \in BOOLEAN : StopProgram(elapsed)
    \/ TurnOff
    \/ \E raw_payload \in Frames, cast \in CastOutcomes, elapsed \in BOOLEAN :
          Tick(TRUE, raw_payload, cast, elapsed)
    \/ \E cast \in CastOutcomes, elapsed \in BOOLEAN :
          Tick(FALSE, <<0, 0, 0, 0>>, cast, elapsed)

Spec == Init /\ [][Next]_vars

(***************************************************************************)
(* The gradient controller alone: GradientController_Update called with    *)
(* any temperature of Temperatures under any setpoint of Setpoints.  hgc   *)
(* and last are used as above, ticks counts the updates, the other         *)
(* variables keep their initial values.                                    *)
(***************************************************************************)
INT32_MAX == 2147483647
INT32_MIN == -2147483647 - 1

\* temperatures passed as T_current_mdeg: the ends of int16_t, 0 and 0.25 C
Temperatures == {-32768, 0, 250, 32767}

\* setpoints passed as g_sp_deg_per_sec: the ends of q16_t, 0, and the
\* gradients +150 C/h and -160 C/h
Setpoints ==
    {INT32_MIN, heater_gradient_to_q16(160, 1), 0,
     heater_gradient_to_q16(150, 0), INT32_MAX}

\* a call of GradientController_Update
GCUpdate(T_current_mdeg) ==
    LET r == GradientController_Update(hgc, T_current_mdeg)
    IN  /\ ticks < MaxUpdates
        /\ ticks' = ticks + 1
        /\ hgc' = r.gc
        /\ last' = [op |-> "update", arg |-> T_current_mdeg, ret |-> "HAL_OK",
                    sensor |-> "none", ran |-> TRUE, T_mdeg |-> T_current_mdeg,
                    u |-> r.u, level |-> GradientController_GetHeaterLevel(r.u),
                    overflow |-> r.overflow]
        /\ UNCHANGED <<storage, frontend, hheater, gpio, htemp, fault_streak, started_ever, stopped>>

\* a call of GradientController_SetSetpoint
GCSetSetpoint(g_sp_deg_per_sec) ==
    /\ hgc.g_sp # g_sp_deg_per_sec
    /\ hgc' = GradientController_SetSetpoint(hgc, g_sp_deg_per_sec)
    /\ last' = Call("setpoint", 0, "HAL_OK")
    /\ UNCHANGED <<storage, frontend, hheater, gpio, htemp, ticks, fault_streak, started_ever,
                   stopped>>

\* a call of GradientController_Reset
GCReset ==
    /\ hgc.initialized = 1
    /\ hgc' = GradientController_Reset(hgc)
    /\ last' = Call("reset", 0, "HAL_OK")
    /\ UNCHANGED <<storage, frontend, hheater, gpio, htemp, ticks, fault_streak, started_ever,
                   stopped>>

NextGC ==
    \/ \E T_current_mdeg \in Temperatures : GCUpdate(T_current_mdeg)
    \/ \E g_sp_deg_per_sec \in Setpoints : GCSetSetpoint(g_sp_deg_per_sec)
    \/ GCReset

SpecGC == Init /\ [][NextGC]_vars

(***************************************************************************)
(* The thermocouple driver alone: max31855_read_data followed by           *)
(* max31855_get_temp_f32, for the frames of SensorFrames.  htemp and last  *)
(* are used as above, ticks counts the reads, the other variables keep     *)
(* their initial values.                                                   *)
(***************************************************************************)
\* frames with the 14-bit thermocouple field at both ends of its positive and
\* of its negative range and in between, with the fault bit clear and set
SensorFrames ==
    { <<b0, b1, 25, 0>> : b0 \in {0, 1, 2, 127, 128, 129, 254, 255},
                          b1 \in {0, 1, 4, 5, 64, 128, 252, 255} }

\* a call of max31855_read_data, then of max31855_get_temp_f32
SensorRead(spi_ok, raw_payload) ==
    LET rd == max31855_read_data(htemp, spi_ok, raw_payload)
    IN  /\ ticks < MaxReads
        /\ ticks' = ticks + 1
        /\ htemp' = rd.payload
        /\ last' = [op |-> "read", arg |-> raw_payload, ret |-> rd.ret,
                    temp_val |-> max31855_get_temp_val(rd.payload),
                    temp_f32 |-> max31855_get_temp_f32(rd.payload)]
        /\ UNCHANGED <<storage, frontend, hheater, gpio, hgc, fault_streak, started_ever, stopped>>

NextSensor ==
    \/ \E raw_payload \in SensorFrames : SensorRead(TRUE, raw_payload)
    \/ SensorRead(FALSE, <<0, 0, 0, 0>>)

SpecSensor == Init /\ [][NextSensor]_vars

(***************************************************************************)
(* The gradient estimator under a constant slope: GradientController_Update*)
(* called with T[n] = n * dT for one increment dT of Slopes, chosen by the *)
(* first call.  hgc is used as above, last holds the increment and the     *)
(* filtered gradient after the call, ticks counts the calls, the other     *)
(* variables keep their initial values.                                    *)
(***************************************************************************)
\* increments per tick in millidegrees: one sensor step (0.25 C) up and down,
\* 150 C/h (42), and the smallest increments
Slopes == {-250, -2, 1, 2, 42, 250, 500, 1000}

\* the n-th call of GradientController_Update under the increment dT
SlopeUpdate(dT) ==
    LET T_current_mdeg == ticks * dT
        r == GradientController_Update(hgc, T_current_mdeg)
    IN  /\ ticks < MaxSlopeUpdates
        /\ ticks > 0 => last.dT = dT
        /\ ticks' = ticks + 1
        /\ hgc' = r.gc
        /\ last' = [op |-> "slope", dT |-> dT, arg |-> T_current_mdeg,
                    u |-> r.u, g_f |-> r.gc.g_f_prev]
        /\ UNCHANGED <<storage, frontend, hheater, gpio, htemp, fault_streak, started_ever, stopped>>

NextSlope == \E dT \in Slopes : SlopeUpdate(dT)

SpecSlope == Init /\ [][NextSlope]_vars

(***************************************************************************)
(* Q16.16 multiplication alone: Q16_MUL applied to the operands of         *)
(* Q16Operands.  last holds the operands and the result, ticks counts the  *)
(* evaluations, the other variables keep their initial values.             *)
(***************************************************************************)
\* the ends of q16_t, 0, +-1 (the smallest fractions), +-1.0, +-2.0, the
\* default gain 100.0 and the largest factor it takes without overflow
Q16Operands ==
    {INT32_MIN, -2 * Q16_ONE, -Q16_ONE, -1, 0, 1, Q16_ONE, 2 * Q16_ONE,
     GC_DEFAULT_KC, 21474836, 21474837, INT32_MAX}

\* an evaluation of Q16_MUL(a, b)
Q16Mul(a, b) ==
    /\ ticks < MaxMuls
    /\ ticks' = ticks + 1
    /\ last' = [op |-> "mul", arg |-> <<a, b>>, ret |-> Q16_MUL(a, b),
                overflow |-> Q16_MUL_Overflows(a, b)]
    /\ UNCHANGED <<storage, frontend, hheater, gpio, hgc, htemp, fault_streak, started_ever,
                   stopped>>

\* the divisors: +-1.0, 2.0, the smallest fraction, 3 / 65536 and 1092 / 65536
Q16Divisors == {-Q16_ONE, 1, 3, 1092, Q16_ONE, 2 * Q16_ONE}

\* an evaluation of Q16_DIV(a, b)
Q16Div(a, b) ==
    /\ ticks < MaxMuls
    /\ ticks' = ticks + 1
    /\ last' = [op |-> "div", arg |-> <<a, b>>, ret |-> Q16_DIV(a, b),
                overflow |-> FALSE]
    /\ UNCHANGED <<storage, frontend, hheater, gpio, hgc, htemp, fault_streak, started_ever,
                   stopped>>

NextQ16 ==
    \/ \E a \in Q16Operands, b \in Q16Operands : Q16Mul(a, b)
    \/ \E a \in Q16Operands \ {INT32_MIN}, b \in Q16Divisors : Q16Div(a, b)

SpecQ16 == Init /\ [][NextQ16]_vars

(***************************************************************************)
(* The settings module on its own: the settings page holds any of a set   *)
(* of records at power-on, and settings_init, settings_load,               *)
(* settings_save and settings_reset_defaults are called in any order.  A   *)
(* save may fail in the erase or in the write.                             *)
(***************************************************************************)
\* the variables the storage calls leave alone
heater_vars ==
    <<hheater, gpio, hgc, htemp, ticks, fault_streak, started_ever, stopped>>

\* the documented [min, max] of each parameter of settings_data_t
SettingsRange ==
    [gc_Kc |-> <<1, 500>>, gc_Ti_s |-> <<10, 300>>, gc_Taw_s |-> <<10, 300>>,
     gc_alpha_x100 |-> <<50, 99>>, tc_Kp |-> <<10, 500>>,
     tc_T_band_deg |-> <<1, 20>>, cb_g_min_degph |-> <<50, 300>>,
     cb_hysteresis_degph |-> <<1, 30>>, cb_Kb |-> <<100, 10000>>,
     cb_u_brake_max_pct |-> <<1, 50>>, ssr_window_seconds |-> <<10, 60>>,
     ssr_min_switch |-> <<1, 15>>]

SettingsFields == DOMAIN SettingsRange

\* the record settings_save writes for the values of s
SettingsRecord(s) ==
    settings_save(s, ErasedPage(SETTINGS_WORDS), TRUE, SETTINGS_WORDS).page

\* values the user interface leaves in g_settings: every parameter at its
\* maximum, a set whose checksum has 0xFFFF as its high half-word, and a
\* gain below its minimum
SettingsPayloads ==
    { [f \in SettingsFields |-> SettingsRange[f][2]],
      [[f \in SettingsFields |-> settings_reset_defaults[f]]
          EXCEPT !.gc_Kc = 81, !.gc_Ti_s = 43],
      [[f \in SettingsFields |-> settings_reset_defaults[f]]
          EXCEPT !.gc_Kc = 0] }

\* g with its parameters replaced by those of payload
WithValues(g, payload) ==
    [f \in DOMAIN g |-> IF f \in SettingsFields THEN payload[f] ELSE g[f]]

\* the settings page at power-on: erased; a record of the defaults, of every
\* parameter at its minimum and at its maximum; the defaults under the magic
\* of the programs page with a matching checksum; the defaults with one bit
\* of a parameter or of the checksum flipped; and for every parameter a
\* record with a matching checksum and that parameter just outside its range
SettingsImages ==
    LET d == settings_reset_defaults
        r == SettingsRecord(d)
        foreign == [d EXCEPT !.magic = PROGRAMS_MAGIC]
    IN  { ErasedPage(SETTINGS_WORDS), r,
          SettingsRecord(WithValues(d, [f \in SettingsFields |->
                                            SettingsRange[f][1]])),
          SettingsRecord(WithValues(d, [f \in SettingsFields |->
                                            SettingsRange[f][2]])),
          SettingsToWords([foreign EXCEPT !.crc32 = SettingsCrc(foreign)]),
          [r EXCEPT ![3] = Xor16(@, 1)],
          [r EXCEPT ![16] = Xor16(@, 32768)] }
        \cup { SettingsRecord([d EXCEPT ![f] = SettingsRange[f][1] - 1]) :
                 f \in SettingsFields }
        \cup { SettingsRecord([d EXCEPT ![f] = SettingsRange[f][2] + 1]) :
                 f \in SettingsFields }

StorageCall(op, arg, ret) == [op |-> op, arg |-> arg, ret |-> ret]

InitSettings ==
    /\ InitHeater
    /\ InitUi
    /\ flash \in [settings : SettingsImages,
                  programs : {ErasedPage(PROGRAMS_WORDS)}]
    /\ g_settings = ZeroSettings
    /\ g_programs = ZeroPrograms

SettingsInit ==
    LET r == settings_init(g_settings, flash.settings)
    IN  /\ g_settings' = r.g_settings
        /\ last' = StorageCall("settings_init", flash.settings, r.ret)
        /\ UNCHANGED <<heater_vars, frontend, flash, g_programs>>

SettingsLoad ==
    LET r == settings_load(g_settings, flash.settings)
    IN  /\ g_settings' = r.g_settings
        /\ last' = StorageCall("settings_load", flash.settings, r.ret)
        /\ UNCHANGED <<heater_vars, frontend, flash, g_programs>>

SettingsResetDefaults ==
    /\ g_settings' = settings_reset_defaults
    /\ last' = StorageCall("settings_reset_defaults", 0, "none")
    /\ UNCHANGED <<heater_vars, frontend, flash, g_programs>>

\* the user interface modifies the values in g_settings
SettingsEdit(payload) ==
    /\ g_settings' = WithValues(g_settings, payload)
    /\ last' = StorageCall("edit", payload, "none")
    /\ UNCHANGED <<heater_vars, frontend, flash, g_programs>>

SettingsSave(erase_ok, written) ==
    LET r == settings_save(g_settings, flash.settings, erase_ok, written)
    IN  /\ g_settings' = r.g_settings
        /\ flash' = [flash EXCEPT !.settings = r.page]
        /\ last' = StorageCall("settings_save", r.g_settings, r.ret)
        /\ UNCHANGED <<heater_vars, frontend, g_programs>>

\* the supply is lost while settings_save writes the record, after written
\* half-words; the controller restarts with zeroed globals
SettingsSavePowerLoss ==
    LET r == settings_save(g_settings, flash.settings, TRUE, 0)
    IN  \E written \in 0 .. SETTINGS_WORDS - 1 :
            /\ flash' = [flash EXCEPT !.settings =
                            flash_write_data(r.page,
                                SettingsToWords(r.g_settings), written)]
            /\ g_settings' = ZeroSettings
            /\ last' = StorageCall("power_loss",
                            [saved |-> r.g_settings, written |-> written],
                            "none")
            /\ UNCHANGED <<heater_vars, frontend, g_programs>>

NextSettings ==
    \/ SettingsInit
    \/ SettingsLoad
    \/ SettingsResetDefaults
    \/ \E erase_ok \in BOOLEAN, written \in {SETTINGS_WORDS \div 2,
                                            SETTINGS_WORDS} :
            (~erase_ok => written = SETTINGS_WORDS)
            /\ SettingsSave(erase_ok, written)

SpecSettings == InitSettings /\ [][NextSettings]_vars

(***************************************************************************)
(* The settings in use, from the factory state: the user interface         *)
(* changes the values, settings_save writes them, completely or until the  *)
(* supply is lost, settings_load reads them back, and settings_init runs   *)
(* at a start.                                                             *)
(***************************************************************************)
NextPowerLoss ==
    \/ SettingsInit
    \/ SettingsLoad
    \/ \E payload \in SettingsPayloads : SettingsEdit(payload)
    \/ SettingsSave(TRUE, SETTINGS_WORDS)
    \/ SettingsSavePowerLoss

SpecPowerLoss == Init /\ [][NextPowerLoss]_vars

(***************************************************************************)
(* Start-up: each page holds any of a set of records, and settings_init    *)
(* and programs_init are called.                                           *)
(***************************************************************************)
\* the record programs_save writes for the program set d
ProgramsRecord(d) ==
    programs_save(d, ErasedPage(PROGRAMS_WORDS), TRUE, PROGRAMS_WORDS).page

\* programs the user interface composes: two steps, and none
TwoStepProgram == Program(2, <<120, 90>>, <<0, 1>>, <<950, 400>>)
EmptyProgram == Program(0, <<>>, <<>>, <<>>)

\* the programs page at power-on: erased; a record of two programs; the same
\* under the magic of the settings page with a matching checksum; the same
\* with one bit of a gradient flipped; a record with a matching checksum and
\* count = 11; and a record with a matching checksum whose only program has
\* length 0
ProgramsImages ==
    LET two == [ZeroPrograms EXCEPT !.count = 2,
                                    !.programs[1] = default_program_2,
                                    !.programs[2] = TwoStepProgram]
        foreign == [two EXCEPT !.magic = SETTINGS_MAGIC]
        eleven == [two EXCEPT !.magic = PROGRAMS_MAGIC, !.count = 11]
    IN  { ErasedPage(PROGRAMS_WORDS),
          ProgramsRecord(two),
          ProgramsToWords([foreign EXCEPT !.crc32 = ProgramsCrc(foreign)]),
          [ProgramsRecord(two) EXCEPT ![6] = Xor16(@, 4)],
          ProgramsToWords([eleven EXCEPT !.crc32 = ProgramsCrc(eleven)]),
          ProgramsRecord([ZeroPrograms EXCEPT !.count = 1,
                                              !.programs[1] = EmptyProgram]) }

InitBoot ==
    /\ InitHeater
    /\ InitUi
    /\ flash \in [settings : SettingsImages, programs : ProgramsImages]
    /\ g_settings = ZeroSettings
    /\ g_programs = ZeroPrograms

ProgramsInit ==
    LET r == programs_init(g_programs, flash.programs)
    IN  /\ g_programs' = r.g_programs
        /\ last' = StorageCall("programs_init", flash.programs, r.ret)
        /\ UNCHANGED <<heater_vars, frontend, flash, g_settings>>

NextBoot ==
    \/ SettingsInit
    \/ ProgramsInit

SpecBoot == InitBoot /\ [][NextBoot]_vars

(***************************************************************************)
(* The programs module on its own: the programs page holds any of a set    *)
(* of records at power-on, and programs_load, programs_save, programs_add  *)
(* and programs_delete are called in any order, MaxProgramOps calls in     *)
(* all.                                                                    *)
(***************************************************************************)
InitPrograms ==
    /\ InitHeater
    /\ InitUi
    /\ flash \in [settings : {ErasedPage(SETTINGS_WORDS)},
                  programs : ProgramsImages]
    /\ g_settings = ZeroSettings
    /\ g_programs = ZeroPrograms

\* what a call of the programs module leaves alone
ProgramsFrame ==
    UNCHANGED <<hheater, gpio, hgc, htemp, fault_streak, started_ever,
                stopped, g_settings, frontend>>

ProgramsLoad ==
    LET r == programs_load(g_programs, flash.programs)
    IN  /\ ticks < MaxProgramOps
        /\ ticks' = ticks + 1
        /\ g_programs' = r.g_programs
        /\ last' = StorageCall("programs_load", flash.programs, r.ret)
        /\ UNCHANGED flash
        /\ ProgramsFrame

ProgramsSave(erase_ok) ==
    LET r == programs_save(g_programs, flash.programs, erase_ok,
                           PROGRAMS_WORDS)
    IN  /\ ticks < MaxProgramOps
        /\ ticks' = ticks + 1
        /\ g_programs' = r.g_programs
        /\ flash' = [flash EXCEPT !.programs = r.page]
        /\ last' = StorageCall("programs_save", r.g_programs, r.ret)
        /\ ProgramsFrame

ProgramsAdd(program) ==
    LET r == programs_add(g_programs, program)
    IN  /\ ticks < MaxProgramOps
        /\ ticks' = ticks + 1
        /\ g_programs' = r.g_programs
        /\ last' = StorageCall("programs_add", program, r.ret)
        /\ UNCHANGED flash
        /\ ProgramsFrame

ProgramsDelete(index) ==
    LET r == programs_delete(g_programs, index)
    IN  /\ ticks < MaxProgramOps
        /\ ticks' = ticks + 1
        /\ g_programs' = r.g_programs
        /\ last' = StorageCall("programs_delete", index, r.ret)
        /\ UNCHANGED flash
        /\ ProgramsFrame

NextPrograms ==
    \/ ProgramsLoad
    \/ \E erase_ok \in BOOLEAN : ProgramsSave(erase_ok)
    \/ \E program \in {TwoStepProgram, EmptyProgram} : ProgramsAdd(<<program>>)
    \/ \E index \in {0, 1} : ProgramsDelete(index)

SpecPrograms == InitPrograms /\ [][NextPrograms]_vars

(***************************************************************************)
(* The list of programs in RAM on its own: g_programs is as zero-          *)
(* initialised, holds the three defaults, or is full (the defaults and     *)
(* seven programs added), and programs_add and programs_delete are called  *)
(* in any order, MaxProgramOps calls in all.                               *)
(***************************************************************************)
\* g after n calls of programs_add(&TwoStepProgram)
RECURSIVE AddedTo(_, _)
AddedTo(g, n) ==
    IF n = 0 THEN g
    ELSE programs_add(AddedTo(g, n - 1), <<TwoStepProgram>>).g_programs

InitProgramList ==
    /\ InitHeater
    /\ InitUi
    /\ flash = [settings |-> ErasedPage(SETTINGS_WORDS),
                programs |-> ErasedPage(PROGRAMS_WORDS)]
    /\ g_settings = ZeroSettings
    /\ g_programs \in {ZeroPrograms, programs_reset_defaults,
                       AddedTo(programs_reset_defaults, MAX_PROGRAMS - 3)}

\* the indexes programs_delete is called with
DeleteIndexes == {0, 2, 3, 9, 10, 255}

NextProgramList ==
    \/ \E program \in {NullProgram, <<TwoStepProgram>>, <<EmptyProgram>>} :
          ProgramsAdd(program)
    \/ \E index \in DeleteIndexes : ProgramsDelete(index)

SpecProgramList == InitProgramList /\ [][NextProgramList]_vars

\* the same with programs_reset_defaults among the calls
ProgramsResetDefaults ==
    /\ ticks < MaxProgramOps
    /\ ticks' = ticks + 1
    /\ g_programs' = programs_reset_defaults
    /\ last' = StorageCall("programs_reset_defaults", 0, "none")
    /\ UNCHANGED flash
    /\ ProgramsFrame

NextProgramSequence ==
    \/ ProgramsResetDefaults
    \/ NextProgramList

SpecProgramSequence == InitProgramList /\ [][NextProgramSequence]_vars

(***************************************************************************)
(* The settings menu: the user presses keys from power-on, MaxUiEvents in  *)
(* all, and ui_update handles each; event is the event ui_get_events took  *)
(* from the queue.  The screens of the programs list are left to           *)
(* SpecUiPrograms.                                                         *)
(***************************************************************************)
UiUpdate(event) ==
    LET r  == ui_update(ui, event)
        st == IF r.apply
              THEN ui_apply_all_settings(r.ui, [gc |-> hgc, ssr |-> ssr],
                                         hheater)
              ELSE [gc |-> hgc, ssr |-> ssr]
    IN  /\ ui.state \in MenuScreens
        /\ ui_events < MaxUiEvents
        /\ ui_events' = ui_events + 1
        /\ ui' = r.ui
        /\ hgc' = st.gc
        /\ ssr' = st.ssr
        /\ last' = Call(IF r.apply THEN "ui_apply_all_settings"
                        ELSE "ui_update", event, "HAL_OK")
        /\ UNCHANGED <<storage, hheater, gpio, htemp, ticks, fault_streak,
                       started_ever, stopped, queue, pc, history>>

NextUiSettings ==
    \/ AttachController
    \/ \E event \in Events : UiUpdate(event)

SpecUiSettings == Init /\ [][NextUiSettings]_vars

(***************************************************************************)
(* ui_apply_all_settings against the RTC alarm interrupt.  The foreground  *)
(* writes the controller's fields one assignment at a time and nothing     *)
(* masks the interrupt, so heater_on_interupt may run between any two of   *)
(* them.  The behaviours begin after the boot, with the controller         *)
(* attached, the settings applied and program 3 started from the programs  *)
(* screen, and the user on the inner-loop screen in edit mode.             *)
(***************************************************************************)
\* the fields of the gradient controller ui_apply_all_settings assigns
ControllerParameters(gc) ==
    <<gc.Kc, gc.Ti_inv_Ts, gc.Taw_inv_Ts, gc.alpha, gc.one_minus_alpha>>

InitApplyIrq ==
    LET h0 == [heater_set_default_params(
                   [h |-> [heater_level |-> 0, heater_level_prev |-> 0,
                           flag_door_open |-> 0,
                           coils |-> [c \in Coils |->
                               [state |-> "COIL_OFF", time_pwm_last |-> 0]],
                           gradient_control_enabled |-> 0,
                           active_program |-> NULL, current_step |-> 0,
                           target_temperature |-> 0, hgc |-> NULL]]).h
               EXCEPT !.hgc = 1]
    IN  /\ \E st \in {ui_apply_all_settings(initUI,
                  [gc |-> GradientController_Init,
                   ssr |-> [window_seconds |-> 0, min_switch_seconds |-> 0]],
                  h0)} :
           \E r \in {heater_start_program(
                  [h |-> h0, gpio |-> [c \in Coils |-> 0], gc |-> st.gc,
                   payload |-> ZeroPayload], 3)} :
              /\ hheater = r.m.h
              /\ gpio = r.m.gpio
              /\ hgc = r.m.gc
              /\ htemp = r.m.payload
              /\ ssr = st.ssr
              /\ last = Call("start", 3, r.ret)
        /\ \E index \in 0 .. 3 :
              ui = [initUI EXCEPT
                       !.state = "SETTINGS_INNER_LOOP",
                       !.settings.edit_mode = 1,
                       !.settings.categories[SETTINGS_CAT_INNER_LOOP].cur_index = index]
        /\ queue = initEvent
        /\ pc = [op |-> "idle"]
        /\ history = [enqueued |-> <<>>, dequeued |-> <<>>]
        /\ ui_events = 0
        /\ ticks = 0
        /\ fault_streak = 0
        /\ started_ever = TRUE
        /\ stopped = FALSE
        /\ flash = [settings |-> ErasedPage(SETTINGS_WORDS),
                    programs |-> ErasedPage(PROGRAMS_WORDS)]
        /\ g_settings = ZeroSettings
        /\ g_programs = ZeroPrograms

\* the user turns or presses a control on the parameter screen
UiEdit(event) ==
    /\ pc.op = "idle"
    /\ ui_events < MaxEdits
    /\ UiUpdate(event)

\* BUT4 on a parameter screen: ui_apply_all_settings, one assignment a step.
\* pc holds the number of assignments done and the parameters before the
\* first and after the last.
ApplyStep ==
    LET st  == [gc |-> hgc, ssr |-> ssr]
        k   == IF pc.op = "apply" THEN pc.k + 1 ELSE 1
        new == ui_apply_write(k, ui, st, hheater)
    IN  /\ ui.state \in DOMAIN SettingsScreens
        /\ hgc' = new.gc
        /\ ssr' = new.ssr
        /\ pc' = IF k = APPLY_WRITES THEN [op |-> "idle"]
                 ELSE IF pc.op = "apply" THEN [pc EXCEPT !.k = k]
                 ELSE [op |-> "apply", k |-> k,
                       old |-> ControllerParameters(hgc),
                       new |-> ControllerParameters(
                                   ui_apply_all_settings(ui, st, hheater).gc)]
        /\ last' = Call("ui_apply_write", k, "HAL_OK")
        /\ UNCHANGED <<storage, hheater, gpio, htemp, ticks, fault_streak,
                       started_ever, stopped, ui, queue, history, ui_events>>

\* the RTC alarm interrupt arrives inside a call the foreground has begun:
\* Tick, between two assignments of the call
TickInCall(spi_ok, raw_payload, cast, elapsed) ==
    LET r       == heater_on_interupt(Machine, spi_ok, raw_payload, cast, elapsed)
        running == hheater.gradient_control_enabled # 0 /\ hheater.hgc # NULL
        fault   == SensorFault(spi_ok, r.m.payload)
        mdeg    == RoundF32(max31855_get_temp_f32(r.m.payload) * 250)
    IN  /\ pc.op # "idle"
        /\ ticks < MaxIrqTicks
        /\ cast = "saturate" => running /\ mdeg \notin -32768 .. 32767
        /\ elapsed => \E c \in Coils : hheater.coils[c].time_pwm_last # 0
        /\ ticks' = ticks + 1
        /\ Becomes(r.m)
        /\ last' = [op |-> "tick", arg |-> 0, ret |-> "HAL_OK",
                    sensor |-> IF fault THEN "fault" ELSE "ok",
                    ran |-> r.ran, T_mdeg |-> r.T_mdeg, u |-> r.u,
                    level |-> r.level]
        /\ fault_streak' = IF running /\ fault THEN fault_streak + 1 ELSE 0
        /\ stopped' = (stopped \/ (hheater.active_program # NULL
                                   /\ r.m.h.active_program = NULL))
        /\ UNCHANGED <<storage, frontend, started_ever>>

NextApplyIrq ==
    \/ \E event \in Events \ {"BUT4"} : UiEdit(event)
    \/ ApplyStep
    \/ \E raw_payload \in Frames, cast \in CastOutcomes, elapsed \in BOOLEAN :
          TickInCall(TRUE, raw_payload, cast, elapsed)
    \/ \E cast \in CastOutcomes, elapsed \in BOOLEAN :
          TickInCall(FALSE, <<0, 0, 0, 0>>, cast, elapsed)

SpecApplyIrq == InitApplyIrq /\ [][NextApplyIrq]_vars

(***************************************************************************)
(* heater_start_program and heater_stop_program against the RTC alarm      *)
(* interrupt.  The handle's fields are plain (not volatile) and nothing    *)
(* masks the interrupt: the foreground's stores and the handler's reads    *)
(* race, so the stores that precede the first call out of the function may *)
(* reach memory in any order.  The user interface starts a program only    *)
(* when gradient control is off and stops one only when it is on (BUT4).   *)
(***************************************************************************)
\* the program state the tick's control and sequencing path works on
ProgramState(h, gc) ==
    <<h.gradient_control_enabled, h.active_program, h.current_step,
      h.target_temperature, gc.g_sp, gc.I>>

\* the stores of heater_start_program that precede GradientController_SetSetpoint
StartStores == {"active_program", "current_step", "target_temperature"}

\* the stores of heater_stop_program that precede heater_set_level
StopStores ==
    {"gradient_control_enabled", "active_program", "current_step",
     "target_temperature"}

\* heater_start_program(&hheater, program), one write a step: the stores to
\* the handle, then GradientController_SetSetpoint, GradientController_Reset
\* and the store that enables gradient control
StartProgramStep(program, write) ==
    LET r    == heater_start_program(Machine, program)
        prog == program_list[program]
        done == IF pc.op = "start" THEN pc.done ELSE {}
        h    == CASE write \in StartStores ->
                       [hheater EXCEPT ![write] = r.m.h[write]]
                  [] write = "gradient_control_enabled" ->
                       [hheater EXCEPT !.gradient_control_enabled = 1]
                  [] OTHER -> hheater
        gc   == CASE write = "SetSetpoint" ->
                       GradientController_SetSetpoint(hgc,
                           heater_gradient_to_q16(prog.gradient[1],
                                                  prog.gradient_negative[1]))
                  [] write = "Reset" -> GradientController_Reset(hgc)
                  [] OTHER -> hgc
        last_write == write = "gradient_control_enabled"
    IN  /\ \/ pc.op = "idle" /\ hheater.gradient_control_enabled = 0
              /\ r.ret = "HAL_OK"
           \/ pc.op = "start" /\ pc.program = program
        /\ write \notin done
        /\ write = "SetSetpoint" => StartStores \subseteq done
        /\ write = "Reset" => "SetSetpoint" \in done
        /\ last_write => "Reset" \in done
        /\ hheater' = h
        /\ hgc' = gc
        /\ pc' = IF last_write THEN [op |-> "idle"]
                 ELSE [op |-> "start", program |-> program,
                       done |-> done \cup {write},
                       old |-> IF pc.op = "start" THEN pc.old
                               ELSE ProgramState(hheater, hgc),
                       new |-> IF pc.op = "start" THEN pc.new
                               ELSE ProgramState(r.m.h, r.m.gc)]
        /\ last' = IF last_write THEN Call("start", program, "HAL_OK")
                    ELSE Call("write", write, "HAL_OK")
        /\ fault_streak' = IF last_write THEN 0 ELSE fault_streak
        /\ started_ever' = (started_ever \/ last_write)
        /\ stopped' = (stopped /\ ~last_write)
        /\ UNCHANGED <<storage, gpio, htemp, ticks, ui, ssr, queue, history,
                       ui_events>>

\* heater_stop_program(&hheater), one write a step: the four stores to the
\* handle, then heater_set_level(hheater, 0) and heater_set_state
StopProgramStep(write, elapsed) ==
    LET done == IF pc.op = "stop" THEN pc.done ELSE {}
        off  == heater_stop_program(Machine, elapsed)
        m    == IF write \in StopStores
                THEN [Machine EXCEPT !.h[write] = off.h[write]]
                ELSE heater_set_state(heater_set_level(Machine, 0), elapsed)
    IN  /\ \/ pc.op = "idle" /\ hheater.gradient_control_enabled # 0
           \/ pc.op = "stop"
        /\ write \in StopStores \cup {"heater_set_level"}
        /\ write \notin done
        /\ write = "heater_set_level" => StopStores \subseteq done
        /\ elapsed => /\ write = "heater_set_level"
                      /\ \E c \in Coils : hheater.coils[c].time_pwm_last # 0
        /\ Becomes(m)
        /\ pc' = IF write = "heater_set_level" THEN [op |-> "idle"]
                 ELSE [op |-> "stop", done |-> done \cup {write},
                       old |-> IF pc.op = "stop" THEN pc.old
                               ELSE ProgramState(hheater, hgc),
                       new |-> IF pc.op = "stop" THEN pc.new
                               ELSE ProgramState(off.h, off.gc)]
        /\ last' = IF write = "heater_set_level" THEN Call("stop", 0, "HAL_OK")
                    ELSE Call("write", write, "HAL_OK")
        /\ stopped' = (stopped \/ write = "heater_set_level")
        /\ UNCHANGED <<storage, ticks, fault_streak, started_ever, ui, ssr,
                       queue, history, ui_events>>

NextStartStopIrq ==
    \/ pc.op = "idle" /\ AttachController
    \/ \E program \in Programs,
          write \in StartStores \cup {"SetSetpoint", "Reset", "gradient_control_enabled"} :
          StartProgramStep(program, write)
    \/ \E write \in StopStores \cup {"heater_set_level"}, elapsed \in BOOLEAN :
          StopProgramStep(write, elapsed)
    \/ \E raw_payload \in Frames, cast \in CastOutcomes, elapsed \in BOOLEAN :
          TickInCall(TRUE, raw_payload, cast, elapsed)
    \/ \E cast \in CastOutcomes, elapsed \in BOOLEAN :
          TickInCall(FALSE, <<0, 0, 0, 0>>, cast, elapsed)

SpecStartStopIrq == Init /\ [][NextStartStopIrq]_vars

(***************************************************************************)
(* The programs menu: the user is on the list of programs, after the boot  *)
(* (ENC_BUT on PROGRAMS) or after seven programs have been created with    *)
(* ENC_BUT alone, and presses keys, MaxCreateEvents calls of ui_update in  *)
(* all.  Once a store has left program_list the behaviour of the C program *)
(* is undefined and is followed no further.                                *)
(***************************************************************************)
\* the handle on the list of programs after n programs have been created
OnOverview(n) ==
    IF n = 0
    THEN [initUI EXCEPT !.state = "PROGRAMS_OVERVIEW", !.last_state = "PROGRAMS"]
    ELSE [initUI EXCEPT
            !.state = "PROGRAMS_OVERVIEW",
            !.last_state = "CREATE_PROGRAM_DETAILED",
            !.written = 2 + n,
            !.programs.length = 3 + n,
            !.programs.cur_index = 2 + n,
            !.programs.program_list =
                [i \in 0 .. MAX_PROGRAMS - 1 |->
                    IF i \in 3 .. 2 + n THEN UiProgram(1, <<0>>, <<0>>, <<0>>)
                    ELSE @[i]],
            !.temp_counter_single = 1]

InitUiPrograms ==
    /\ InitHeater
    /\ ui \in {OnOverview(0), OnOverview(MAX_PROGRAMS - 3)}
    /\ ssr = [window_seconds |-> 0, min_switch_seconds |-> 0]
    /\ queue = initEvent
    /\ pc = [op |-> "idle"]
    /\ history = [enqueued |-> <<>>, dequeued |-> <<>>]
    /\ ui_events = 0
    /\ flash = [settings |-> ErasedPage(SETTINGS_WORDS),
                programs |-> ErasedPage(PROGRAMS_WORDS)]
    /\ g_settings = ZeroSettings
    /\ g_programs = ZeroPrograms

\* ui_update on a screen of the programs menu
UiProgramsUpdate(event) ==
    /\ ui.state \in ProgramScreens
    /\ ui.written < MAX_PROGRAMS
    /\ ~(ui.last_state = ui.state /\ event = "NO_EVENT")
    /\ ui_events < MaxCreateEvents
    /\ ui_events' = ui_events + 1
    /\ ui' = ui_update_program_screens(ui, event)
    /\ last' = Call("ui_update", event, "HAL_OK")
    /\ UNCHANGED <<storage, heater_vars, ssr, queue, pc, history>>

NextUiPrograms == \E event \in UiEvents \ {"BUT4"} : UiProgramsUpdate(event)

SpecUiPrograms == InitUiPrograms /\ [][NextUiPrograms]_vars

(***************************************************************************)
(* The whole menu: from the PROGRAMS screen shown at power-on the user     *)
(* presses keys on the screens of the main menu, of the settings menu and  *)
(* of the programs menu.                                                   *)
(***************************************************************************)
NextUiMenu ==
    \/ NextUiSettings
    \/ NextUiPrograms

SpecUiMenu == Init /\ [][NextUiMenu]_vars

(***************************************************************************)
(* The dialog that creates a program: the user has opened it from the list *)
(* of the three programs and has turned the encoder as far as the limit of *)
(* a field, or has pressed ENC_BUT through the fields of a program of ten  *)
(* steps, and presses keys from there.                                     *)
(***************************************************************************)
\* the event e, n times
Repeated(e, n) == [i \in 1 .. n |-> e]

\* the handle after ui_update has handled the events of keys, first to last
RECURSIVE KeysPressed(_, _)
KeysPressed(u, keys) ==
    IF keys = <<>> THEN u
    ELSE KeysPressed(ui_update_program_screens(u, Head(keys)), Tail(keys))

\* the keys pressed in the dialog so far: none; ENC_BUT to the first
\* gradient and ENC_UP to 640; ENC_BUT to the first temperature and ENC_UP
\* to 1280; ENC_UP past a length of ten and ENC_BUT to the last temperature
DialogKeys ==
    { <<>>,
      <<"ENC_BUT">> \o Repeated("ENC_UP", (MAX_GRADIENT \div ENC_INC)),
      <<"ENC_BUT", "ENC_BUT">>
          \o Repeated("ENC_UP", (MAX_TEMPERATURE \div ENC_INC) - 1),
      Repeated("ENC_UP", MAX_PROGRAM_SEQ_LENGTH + 1)
          \o Repeated("ENC_BUT", 2 * MAX_PROGRAM_SEQ_LENGTH) }

InitCreateDialog ==
    /\ InitHeater
    /\ ui \in { KeysPressed(OnOverview(0), <<"BUT1", "ENC_BUT">> \o keys) :
                  keys \in DialogKeys }
    /\ ssr = [window_seconds |-> 0, min_switch_seconds |-> 0]
    /\ queue = initEvent
    /\ pc = [op |-> "idle"]
    /\ history = [enqueued |-> <<>>, dequeued |-> <<>>]
    /\ ui_events = 0
    /\ flash = [settings |-> ErasedPage(SETTINGS_WORDS),
                programs |-> ErasedPage(PROGRAMS_WORDS)]
    /\ g_settings = ZeroSettings
    /\ g_programs = ZeroPrograms

SpecCreateDialog == InitCreateDialog /\ [][NextUiPrograms]_vars

(***************************************************************************)
(* The event queue on its own: event_enqueue and event_dequeue called from *)
(* one context, each call running to its end before the next begins.       *)
(* malloc returns any address of the heap that is free; with no address    *)
(* free event_createNode ends the program, and so does event_dequeue of an *)
(* empty queue.                                                            *)
(***************************************************************************)
\* the events enqueued
QueueEvents == {"BUT1", "ENC_BUT", "ENC_UP"}

\* the events of the list, walked from node a along next
RECURSIVE EventsFrom(_, _, _)
EventsFrom(q, a, fuel) ==
    IF a = NULL \/ fuel = 0 THEN <<>>
    ELSE <<q.heap[a].data>> \o EventsFrom(q, q.heap[a].next, fuel - 1)

\* event_enqueue(&queue, event), malloc returning newNode
EventEnqueue(event, newNode) ==
    /\ Len(history.enqueued) < MaxEnqueues
    /\ queue.heap[newNode] = FreeNode
    /\ queue' = event_enqueue(queue, event, newNode)
    /\ history' = [history EXCEPT !.enqueued = Append(@, event)]
    /\ last' = Call("event_enqueue", event, newNode)
    /\ UNCHANGED <<storage, heater_vars, ui, ssr, pc, ui_events>>

\* event_dequeue(&queue) of a queue that is not empty
EventDequeue ==
    /\ event_isEmpty(queue) = 0
    /\ LET r == event_dequeue(queue)
       IN  /\ queue' = r.queue
           /\ history' = [history EXCEPT !.dequeued = Append(@, r.data)]
           /\ last' = Call("event_dequeue", queue.front, r.data)
    /\ UNCHANGED <<storage, heater_vars, ui, ssr, pc, ui_events>>

NextEventQueue ==
    \/ \E event \in QueueEvents, newNode \in 1 .. MaxNodes :
           EventEnqueue(event, newNode)
    \/ EventDequeue

SpecEventQueue == Init /\ [][NextEventQueue]_vars

(***************************************************************************)
(* The sequencer alone: the controller is attached, one program is         *)
(* started, and the RTC alarm keeps calling heater_on_interupt while the   *)
(* door flag changes at will.  At most MaxWaitTicks ticks pass without     *)
(* completing a step; a tick that completes one is always possible.        *)
(***************************************************************************)
\* a step from a running program to the next step or to the end
StepCompleted ==
    /\ hheater.active_program # NULL
    /\ \/ hheater'.current_step # hheater.current_step
       \/ hheater'.active_program = NULL

\* heater_start_program, called once
SequencerStart(program) ==
    LET r == heater_start_program(Machine, program)
    IN  /\ ~started_ever
        /\ Becomes(r.m)
        /\ last' = Call("start", program, r.ret)
        /\ fault_streak' = IF r.ret = "HAL_OK" THEN 0 ELSE fault_streak
        /\ started_ever' = (started_ever \/ r.ret = "HAL_OK")
        /\ stopped' = (stopped /\ r.ret # "HAL_OK")
        /\ UNCHANGED <<storage, frontend, ticks>>

\* the RTC alarm interrupt while the program runs: Tick, where only the
\* ticks that complete no step are counted against the bound
SequencerTick(spi_ok, raw_payload, cast, elapsed) ==
    /\ hheater.gradient_control_enabled # 0 /\ hheater.hgc # NULL
    /\ hheater.active_program # NULL
    /\ elapsed => \E c \in Coils : hheater.coils[c].time_pwm_last # 0
    /\ cast = "saturate"
          => RoundF32(max31855_get_temp_f32(
                 max31855_read_data(htemp, spi_ok, raw_payload).payload) * 250)
                 \notin -32768 .. 32767
    /\ \E r \in {heater_on_interupt(Machine, spi_ok, raw_payload, cast, elapsed)} :
        LET fault == SensorFault(spi_ok, r.m.payload)
            waits == r.m.h.current_step = hheater.current_step
                     /\ r.m.h.active_program # NULL
        IN  /\ waits => ticks < MaxWaitTicks
            /\ ticks' = IF waits THEN ticks + 1 ELSE ticks
            /\ Becomes(r.m)
            /\ last' = [op |-> "tick", arg |-> 0, ret |-> "HAL_OK",
                        sensor |-> IF fault THEN "fault" ELSE "ok",
                        ran |-> r.ran, T_mdeg |-> r.T_mdeg, u |-> r.u,
                        level |-> r.level]
            /\ fault_streak' = IF fault THEN fault_streak + 1 ELSE 0
            /\ stopped' = (stopped \/ r.m.h.active_program = NULL)
            /\ UNCHANGED <<storage, frontend, started_ever>>

\* a tick of the running program
SequencerTicks ==
    \/ \E raw_payload \in Frames, cast \in CastOutcomes, elapsed \in BOOLEAN :
          SequencerTick(TRUE, raw_payload, cast, elapsed)
    \/ \E cast \in CastOutcomes, elapsed \in BOOLEAN :
          SequencerTick(FALSE, <<0, 0, 0, 0>>, cast, elapsed)

NextSequencer ==
    \/ AttachController
    \/ \E open \in {0, 1} : SetDoorOpen(open)
    \/ \E program \in {NULL} \cup Programs : SequencerStart(program)
    \/ SequencerTicks

\* ticks keep occurring, and for the current step the target condition
\* holds at some tick
SpecSequencer ==
    /\ Init
    /\ [][NextSequencer]_vars
    /\ WF_vars(SequencerTicks /\ StepCompleted)

(***************************************************************************)
(* GradientController_GetHeaterLevel alone, called for two outputs of the  *)
(* controller.  ticks counts the calls.                                    *)
(***************************************************************************)
\* the outputs passed: the ends of q16_t, the ends of [0, 65536] and their
\* neighbours, and the values on both sides of every threshold named in
\* pid.c and of every threshold of the rounding
LevelInputs ==
    {INT32_MIN, -1, 0, 1, 5461, 5462, 10922, 10923, 16383, 16384, 21844,
     21845, 27306, 27307, 32767, 32768, 38229, 38230, 43690, 43691, 49151,
     49152, 54612, 54613, 60074, 60075, 65535, 65536, 65537, INT32_MAX}

\* the level whose thresholds are the sequence t: the number of thresholds
\* at or below u, u clamped to [0, 65536]
LevelByThresholds(t, u) ==
    LET uc == IF u < 0 THEN 0 ELSE IF u > Q16_ONE THEN Q16_ONE ELSE u
    IN  Cardinality({i \in 1 .. Len(t) : uc >= t[i]})

\* GradientController_GetHeaterLevel(u) and GradientController_GetHeaterLevel(v)
GetHeaterLevels(u, v) ==
    /\ ticks < MaxLevelCalls
    /\ ticks' = ticks + 1
    /\ last' = Call("level", <<u, v>>,
                    <<GradientController_GetHeaterLevel(u),
                      GradientController_GetHeaterLevel(v)>>)
    /\ UNCHANGED <<storage, frontend, hheater, gpio, hgc, htemp, fault_streak,
                   started_ever, stopped>>

NextLevel == \E u \in LevelInputs, v \in LevelInputs : GetHeaterLevels(u, v)

SpecLevel == Init /\ [][NextLevel]_vars

(***************************************************************************)
(* The event queue with its two contexts: the foreground calls             *)
(* ui_get_events, the input interrupts call event_enqueue.  event.c has no *)
(* critical section, so an interrupt is taken between any two accesses the *)
(* foreground makes to the queue; the interrupt handler runs to its end.   *)
(* pc holds where the foreground stands in event_dequeue and its locals.   *)
(* The test of event_isEmpty and the loads of queue->front and of          *)
(* temp->data are one step: event_enqueue on a queue that is not empty     *)
(* writes neither front nor a node's data.                                 *)
(***************************************************************************)
\* ui_get_events up to data = temp->data, or to its return of NO_EVENT
GetEventsBegin ==
    /\ pc.op = "idle"
    /\ IF event_isEmpty(queue) = 1
       THEN /\ last' = Call("ui_get_events", 0, "NO_EVENT")
            /\ UNCHANGED pc
       ELSE /\ pc' = [op |-> "dequeue", at |-> "next", temp |-> queue.front,
                      data |-> queue.heap[queue.front].data, next |-> NULL]
            /\ UNCHANGED last
    /\ UNCHANGED <<storage, heater_vars, ui, ssr, queue, history, ui_events>>

\* the load of queue->front->next
DequeueLoadNext ==
    /\ pc.op = "dequeue" /\ pc.at = "next"
    /\ pc' = [pc EXCEPT !.at = "front", !.next = queue.heap[queue.front].next]
    /\ UNCHANGED <<storage, heater_vars, ui, ssr, queue, history, ui_events,
                   last>>

\* the store to queue->front
DequeueStoreFront ==
    /\ pc.op = "dequeue" /\ pc.at = "front"
    /\ queue' = [queue EXCEPT !.front = pc.next]
    /\ pc' = [pc EXCEPT !.at = "free"]
    /\ UNCHANGED <<storage, heater_vars, ui, ssr, history, ui_events, last>>

\* free(temp)
DequeueFree ==
    /\ pc.op = "dequeue" /\ pc.at = "free"
    /\ queue' = [queue EXCEPT !.heap[pc.temp] = FreeNode]
    /\ pc' = [pc EXCEPT !.at = "test"]
    /\ UNCHANGED <<storage, heater_vars, ui, ssr, history, ui_events, last>>

\* if (queue->front == NULL); with a front the call returns data
DequeueTestFront ==
    /\ pc.op = "dequeue" /\ pc.at = "test"
    /\ IF queue.front = NULL
       THEN /\ pc' = [pc EXCEPT !.at = "rear"]
            /\ UNCHANGED <<history, last>>
       ELSE /\ pc' = [op |-> "idle"]
            /\ history' = [history EXCEPT !.dequeued = Append(@, pc.data)]
            /\ last' = Call("ui_get_events", pc.temp, pc.data)
    /\ UNCHANGED <<storage, heater_vars, ui, ssr, queue, ui_events>>

\* queue->rear = NULL and the return of data
DequeueStoreRear ==
    /\ pc.op = "dequeue" /\ pc.at = "rear"
    /\ queue' = [queue EXCEPT !.rear = NULL]
    /\ pc' = [op |-> "idle"]
    /\ history' = [history EXCEPT !.dequeued = Append(@, pc.data)]
    /\ last' = Call("ui_get_events", pc.temp, pc.data)
    /\ UNCHANGED <<storage, heater_vars, ui, ssr, ui_events>>

\* an input interrupt: event_enqueue(&queue, event).  With a front and no
\* rear the store to queue->rear->next goes through NULL and the program
\* does not continue
IrqEnqueue(event, newNode) ==
    /\ queue.front # NULL => queue.rear # NULL
    /\ EventEnqueue(event, newNode)

NextQueueIrq ==
    \/ GetEventsBegin
    \/ DequeueLoadNext
    \/ DequeueStoreFront
    \/ DequeueFree
    \/ DequeueTestFront
    \/ DequeueStoreRear
    \/ \E event \in QueueEvents, newNode \in 1 .. MaxNodes :
           IrqEnqueue(event, newNode)

SpecQueueIrq == Init /\ [][NextQueueIrq]_vars

(***************************************************************************)
(* Properties.                                                             *)
(***************************************************************************)
\* all three coils are commanded OFF: coil state COIL_OFF and pin low
CoilsOff ==
    \A c \in Coils : hheater.coils[c].state = "COIL_OFF" /\ gpio[c] = 0

\* a program is running: gradient control enabled with a controller attached
Running == hheater.gradient_control_enabled # 0 /\ hheater.hgc # NULL

\* C1: from the return of heater_stop_program until the next successful
\* heater_start_program, all three coils are commanded OFF, whatever ticks
\* and door changes came before the stop and whatever ticks come after it.
C1_CoilsOffAfterStop == stopped => CoilsOff

\* a step of the behaviour that is a tick of a running program
RunningTick == ticks' = ticks + 1 /\ Running

\* C2: while a program is running, every tick executed with the door flag set
\* ends with all three coils commanded OFF, whatever level the controller
\* computed in that tick.
C2_DoorOpenTickCoilsOff ==
    [][(RunningTick /\ hheater.flag_door_open # 0) => CoilsOff']_vars

\* a tick of a running program with the door open in which the controller
\* asked for heat, and the coils are OFF
C2_Witness ==
    /\ last.op = "tick" /\ last.ran /\ last.level > 0
    /\ hheater.flag_door_open # 0
    /\ CoilsOff

\* C3: on a tick whose sensor read fails or whose frame carries the fault bit,
\* the gradient estimator, the PI integrator and the step index are unchanged
\* and the coil outputs keep the values of the previous tick (the stale
\* temperature is not fed to the controller).
C3_FaultTickFreezesController ==
    [][(RunningTick /\ last'.sensor = "fault")
          => /\ hgc' = hgc
             /\ hheater'.current_step = hheater.current_step
             /\ hheater'.coils = hheater.coils
             /\ gpio' = gpio]_vars

\* the controller is in SafetyHold: coils OFF, sequencer disabled
SafetyHold ==
    /\ CoilsOff
    /\ hheater.gradient_control_enabled = 0
    /\ hheater.active_program = NULL

\* C4: after three consecutive ticks with a sensor fault during a running
\* program the controller is in SafetyHold, until a successful read followed
\* by an explicit start.
C4_SafetyHoldAfterThreeFaults == fault_streak >= 3 => SafetyHold

\* C5: after heater_start_program returns HAL_OK: current_step = 0, the target
\* is temperature[0], the gradient setpoint is the Q16 conversion of step 0's
\* gradient (negated for cooling), the integrator is 0, the estimator is
\* uninitialised and gradient control is enabled.
C5_StartLoadsStepZero ==
    (last.op = "start" /\ last.ret = "HAL_OK") =>
        LET prog == program_list[last.arg]
        IN  /\ hheater.current_step = 0
            /\ hheater.target_temperature = prog.temperature[1]
            /\ hgc.g_sp = heater_gradient_to_q16(prog.gradient[1],
                                                 prog.gradient_negative[1])
            /\ hgc.I = 0
            /\ hgc.initialized = 0
            /\ hheater.gradient_control_enabled # 0

\* C6: heater_start_program called with NULL, with an empty program or with no
\* gradient controller attached returns HAL_ERROR and leaves the heater, the
\* controller and the coil pins unchanged.
C6_RejectedStartChangesNothing ==
    [][(/\ last'.op = "start"
        /\ \/ last'.arg = NULL
           \/ hheater.hgc = NULL
           \/ program_list[last'.arg].length = 0)
          => /\ last'.ret = "HAL_ERROR"
             /\ hheater' = hheater
             /\ hgc' = hgc
             /\ gpio' = gpio]_vars

\* an empty program was rejected while another program was running
C6_Witness ==
    /\ last.op = "start" /\ last.ret = "HAL_ERROR"
    /\ last.arg # NULL /\ program_list[last.arg].length = 0
    /\ hheater.active_program # NULL
    /\ hgc.initialized = 1

\* C7: on each tick of a running program the step advance is evaluated once,
\* after the tick's output was computed from the setpoint of the outgoing
\* step: the index advances by exactly one if the step's target is reached and
\* is otherwise unchanged; when the advanced index equals the program length
\* the program is stopped, otherwise the new step's target temperature and
\* gradient setpoint are loaded.
C7_StepAdvanceOncePerTick ==
    [][(RunningTick /\ hheater.active_program # NULL) =>
        LET program == program_list[hheater.active_program]
            step    == hheater.current_step
            degrees == DivTrunc(max31855_get_temp_f32(htemp'), 4)
            heating == program.gradient_negative[step + 1] = 0
            reached == \/ heating /\ degrees >= hheater.target_temperature
                       \/ ~heating /\ degrees <= hheater.target_temperature
        IN  /\ last'.u = GradientController_Update(hgc, last'.T_mdeg).u
            /\ IF ~reached
               THEN /\ hheater'.active_program = hheater.active_program
                    /\ hheater'.current_step = step
                    /\ hheater'.target_temperature = hheater.target_temperature
                    /\ hgc'.g_sp = hgc.g_sp
               ELSE IF step + 1 = program.length
               THEN /\ hheater'.active_program = NULL
                    /\ hheater'.gradient_control_enabled = 0
               ELSE /\ hheater'.active_program = hheater.active_program
                    /\ hheater'.gradient_control_enabled # 0
                    /\ hheater'.current_step = step + 1
                    /\ hheater'.target_temperature = program.temperature[step + 2]
                    /\ hgc'.g_sp = heater_gradient_to_q16(
                                       program.gradient[step + 2],
                                       program.gradient_negative[step + 2])
       ]_vars

\* a tick advanced the two-step program to its cooling step and loaded it
C7_Witness ==
    /\ last.op = "tick" /\ last.ran
    /\ hheater.active_program = 3
    /\ hheater.current_step = 1
    /\ hheater.target_temperature = 19
    /\ hgc.g_sp = heater_gradient_to_q16(160, 1)

\* C8: in every reachable state the three coil outputs carry the same value.
C8_CoilsDrivenIdentically ==
    \A c, d \in Coils :
        /\ hheater.coils[c].state = hheater.coils[d].state
        /\ gpio[c] = gpio[d]

\* C9: from boot, as long as no heater_start_program has succeeded, every tick
\* leaves the controller untouched (no duty is computed) and all three coils
\* OFF at level 0, for any number of ticks and any temperature readings.
C9_IdleBeforeFirstStart ==
    ~started_ever =>
        /\ CoilsOff
        /\ hheater.heater_level = 0
        /\ hgc.initialized = 0
        /\ last.op = "tick" => (~last.ran /\ last.u = 0)

\* ticks with changing readings and the controller attached, before any start
C9_Witness ==
    /\ ~started_ever
    /\ last.op = "tick" /\ ticks >= 2
    /\ hheater.hgc # NULL
    /\ htemp.therm_temp_value = 40
    /\ CoilsOff

\* C10: every value GradientController_Update returns lies in [u_min, u_max]
\* (0 .. 65536 by default), for every sequence of temperatures and every
\* setpoint, the first call after init or reset and calls whose Q16 product
\* overflows included.
C10_UpdateOutputWithinLimits ==
    last.op = "update" =>
        /\ hgc.u_min <= last.u /\ last.u <= hgc.u_max
        /\ 0 <= last.u /\ last.u <= 65536

\* an update after the first one in which Kc * (e + I) left 32 bits
C10_Witness ==
    /\ last.op = "update" /\ last.overflow
    /\ hgc.initialized = 1
    /\ hgc.u_min <= last.u /\ last.u <= hgc.u_max

\* C11: the millidegree value a tick of a running program hands to the
\* controller equals the measured temperature (250 millidegrees per quarter
\* of a degree) exactly, with no truncation or wrap-around.
C11_MillidegreesExact ==
    (last.op = "tick" /\ last.ran) =>
        last.T_mdeg = 250 * max31855_get_temp_f32(htemp)

\* the two's-complement value of the 14-bit field in bits 31..18 of a frame
ThermocoupleField(raw_payload) ==
    LET field == raw_payload[1] * 64 + (raw_payload[2] \div 4)
    IN  IF field >= 2 ^ 13 THEN field - 2 ^ 14 ELSE field

\* C12: for every frame read, the temperature the driver returns (in quarters
\* of a degree) is the two's-complement value of the 14-bit field in bits
\* 31..18, for negative as well as positive readings.
C12_TemperatureIsTwosComplementField ==
    (last.op = "read" /\ last.ret = "HAL_OK") =>
        last.temp_f32 = ThermocoupleField(last.arg)

\* C13: Q16 multiplication saturates: when the exact result (a * b) >> 16 is
\* outside int32, Q16_MUL returns INT32_MAX for a positive and INT32_MIN for
\* a negative result (so mul(MAX, 2.0) = MAX and mul(MIN, 2.0) = MIN).
C13_Q16MulSaturates ==
    (last.op = "mul" /\ last.overflow) =>
        last.ret = IF (last.arg[1] < 0) # (last.arg[2] < 0) THEN INT32_MIN
                                                            ELSE INT32_MAX

\* C14: the first GradientController_Update after GradientController_Init or
\* GradientController_Reset returns exactly 0, stores the sample as T_prev and
\* leaves the filtered gradient and the integrator at 0 (no gradient is
\* estimated from the first sample); the setpoint and the tuning are untouched.
C14_FirstUpdateReturnsZero ==
    [][(last'.op = "update" /\ ticks' = ticks + 1 /\ hgc.initialized = 0) =>
          /\ last'.u = 0
          /\ hgc'.T_prev_mdeg = last'.arg
          /\ hgc'.g_f_prev = 0
          /\ hgc'.I = 0
          /\ hgc' = [hgc EXCEPT !.T_prev_mdeg = last'.arg, !.initialized = 1]
       ]_vars

\* the first update after a reset that followed earlier updates: the sample
\* 32.767 C is stored under the largest setpoint, the output is 0 and the
\* gradient and the integrator are 0
C14_Witness ==
    /\ last.op = "update" /\ ticks >= 3
    /\ last.u = 0 /\ last.arg = 32767
    /\ hgc.initialized = 1 /\ hgc.T_prev_mdeg = 32767
    /\ hgc.g_sp = INT32_MAX
    /\ hgc.g_f_prev = 0 /\ hgc.I = 0

\* |x|
Abs(x) == IF x >= 0 THEN x ELSE -x

\* C15: with alpha = 0.8 and Ts = 1000 ms, under a constant increment dT per
\* tick (true slope k = dT / Ts, as Q16.16 dT * 65536 / 1000) the filtered
\* gradient differs from k by at most 1% of |k| after 22 updates and on all
\* later updates.
C15_FilteredGradientConverges ==
    (last.op = "slope" /\ ticks >= 22) =>
        100 * Abs(1000 * last.g_f - 65536 * last.dT) <= 65536 * Abs(last.dT)

\* the three checks of the load contract, on the record w as stored
MagicMatches(w) == <<w[2], w[1]>> = SETTINGS_MAGIC

CrcMatches(w) ==
    <<w[16], w[15]>> = flash_compute_crc32(w, SETTINGS_WORDS - 2)

FieldsInRange(w) ==
    \A f \in SettingsFields :
        /\ WordsToSettings(w)[f] >= SettingsRange[f][1]
        /\ WordsToSettings(w)[f] <= SettingsRange[f][2]

\* C16: settings_load returns HAL_ERROR whenever the stored record has a wrong
\* magic, a CRC that does not match the record, or any field outside its
\* documented [min, max]; it returns HAL_OK only when all three checks pass.
C16_LoadRejectsInvalidRecord ==
    last.op = "settings_load" =>
        LET pass == /\ MagicMatches(last.arg)
                    /\ CrcMatches(last.arg)
                    /\ FieldsInRange(last.arg)
        IN  /\ ~pass => last.ret = "HAL_ERROR"
            /\ last.ret = "HAL_OK" => pass

\* a record with the magic and a matching checksum is rejected for a field
\* outside its range
C16_Witness ==
    /\ last.op = "settings_load"
    /\ last.ret = "HAL_ERROR"
    /\ MagicMatches(last.arg)
    /\ CrcMatches(last.arg)
    /\ ~FieldsInRange(last.arg)

\* the checks programs_load applies to the record w as stored
ProgramsRecordValid(w) ==
    /\ <<w[2], w[1]>> = PROGRAMS_MAGIC
    /\ <<w[PROGRAMS_WORDS], w[PROGRAMS_WORDS - 1]>>
           = flash_compute_crc32(w, PROGRAMS_WORDS - 2)
    /\ w[3] % 256 <= MAX_PROGRAMS

SettingsRecordValid(w) ==
    MagicMatches(w) /\ CrcMatches(w) /\ FieldsInRange(w)

\* C17: settings_init and programs_init never erase or write flash, whatever
\* the flash contains; when the stored record is invalid the RAM copy
\* afterwards equals the compiled defaults (and passes settings_validate),
\* when it is valid the RAM copy equals the stored record.
C17_InitLoadsOrFallsBack ==
    [][ /\ SettingsInit =>
            /\ flash' = flash
            /\ IF SettingsRecordValid(flash.settings)
               THEN g_settings' = WordsToSettings(flash.settings)
               ELSE /\ g_settings' = settings_reset_defaults
                    /\ settings_validate(g_settings') = 1
        /\ ProgramsInit =>
            /\ flash' = flash
            /\ IF ProgramsRecordValid(flash.programs)
               THEN g_programs' = WordsToPrograms(flash.programs)
               ELSE g_programs' = programs_reset_defaults ]_vars

\* both have run: the settings record had the magic and a matching checksum
\* but a field out of range and g_settings holds the defaults, the programs
\* record was valid and g_programs holds its two programs
C17_Witness ==
    /\ last.op = "programs_init"
    /\ g_programs = WordsToPrograms(flash.programs)
    /\ g_programs.count = 2
    /\ g_settings = settings_reset_defaults
    /\ MagicMatches(flash.settings)
    /\ CrcMatches(flash.settings)
    /\ ~FieldsInRange(flash.settings)

\* C18: for any settings payload held in g_settings and any program set held
\* in g_programs, a successful save followed by a load returns HAL_OK and
\* leaves the RAM copy equal to the payload that was saved (with the magic and
\* the fresh CRC).
C18_SaveThenLoadRoundTrip ==
    [][ /\ (last.op = "settings_save" /\ last.ret = "HAL_OK" /\ SettingsLoad)
            => /\ last'.ret = "HAL_OK"
               /\ g_settings' = last.arg
               /\ g_settings'.magic = SETTINGS_MAGIC
               /\ g_settings'.crc32 = SettingsCrc(g_settings')
        /\ (last.op = "programs_save" /\ last.ret = "HAL_OK" /\ ProgramsLoad)
            => /\ last'.ret = "HAL_OK"
               /\ g_programs' = last.arg
               /\ g_programs'.magic = PROGRAMS_MAGIC
               /\ g_programs'.crc32 = ProgramsCrc(g_programs') ]_vars

\* a start that follows the loss of the supply during a save
BootAfterPowerLoss == last.op = "power_loss" /\ SettingsInit

ProgramLengthsValid(d) ==
    \A k \in 1 .. MAX_PROGRAMS :
        k <= d.count => /\ d.programs[k].length >= 1
                        /\ d.programs[k].length <= MAX_PROGRAM_SEQ_LENGTH

\* C20: every program in slots [0, count) of a program set written by
\* programs_save or accepted by programs_load has length in [1..10], after any
\* sequence of programs_add, programs_delete, programs_save and programs_load.
C20_PersistedProgramsHaveSteps ==
    /\ (last.op = "programs_save" /\ last.ret = "HAL_OK")
           => ProgramLengthsValid(WordsToPrograms(flash.programs))
    /\ (last.op = "programs_load" /\ last.ret = "HAL_OK")
           => ProgramLengthsValid(g_programs)

\* C21: every SSR timing configuration the system accepts (a record that
\* passes settings_validate, or the values ui_apply_all_settings writes after
\* any sequence of setting edits) satisfies
\* min_switch_seconds < window_seconds / 2.
C21_MinSwitchBelowHalfWindow ==
    /\ settings_validate(g_settings) = 1
           => 2 * g_settings.ssr_min_switch < g_settings.ssr_window_seconds
    /\ last.op = "ui_apply_all_settings"
           => 2 * ssr.min_switch_seconds < ssr.window_seconds

\* C22: a tick that arrives while ui_apply_all_settings is under way runs the
\* controller on the parameters from before the call or on those from after
\* it, never on a mixture.
C22_TickSeesOldOrNewParameters ==
    [][pc.op = "apply" /\ last'.op = "tick" /\ last'.ran
         => ControllerParameters(hgc) \in {pc.old, pc.new}]_vars

C24_RejectedAddDeleteChangeNothing ==
    [][/\ last'.op = "programs_add"
          /\ (last'.arg = NullProgram \/ g_programs.count >= MAX_PROGRAMS)
          => last'.ret = -1 /\ g_programs' = g_programs
       /\ last'.op = "programs_delete" /\ last'.arg >= g_programs.count
          => last'.ret = "HAL_ERROR" /\ g_programs' = g_programs]_vars

\* programs_add has refused a program because the list is full
C24_Witness ==
    /\ last.op = "programs_add"
    /\ last.arg # NullProgram
    /\ last.ret = -1
    /\ g_programs.count = MAX_PROGRAMS

\* C25: after heater_turn_off has returned HAL_OK the three coil pins are
\* low, the heater level is 0, no program is attached and gradient control
\* is disabled.
C25_TurnOffLeavesHeaterOff ==
    last.op = "turn_off" /\ last.ret = "HAL_OK"
    => /\ \A c \in Coils : gpio[c] = 0
       /\ hheater.heater_level = 0
       /\ hheater.active_program = NULL
       /\ hheater.gradient_control_enabled = 0

\* C26: the user interface never holds more than MAX_PROGRAMS programs, and
\* saving a created program stores it in a slot below MAX_PROGRAMS.
C26_ProgramListWithinBounds ==
    /\ ui.programs.length <= MAX_PROGRAMS
    /\ ui.written < MAX_PROGRAMS

\* C27: for Q16 values a and b of magnitude below 2^15 (every q16_t but
\* INT32_MIN): Q16_MUL(a, 1.0) = a, Q16_DIV(a, 1.0) = a, and
\* Q16_MUL(a, b) = Q16_MUL(b, a).
C27_Q16Identities ==
    LET a == last.arg[1]
        b == last.arg[2]
    IN  /\ last.op = "mul" /\ a # INT32_MIN /\ b # INT32_MIN
           => /\ b = Q16_ONE => last.ret = a
              /\ last.ret = Q16_MUL(b, a)
        /\ last.op = "div" /\ a # INT32_MIN /\ b = Q16_ONE => last.ret = a

\* a negative value has been multiplied by 1.0
C27_Witness ==
    /\ last.op = "mul"
    /\ last.arg[1] \in INT32_MIN + 1 .. -1
    /\ last.arg[2] = Q16_ONE
    /\ last.ret = last.arg[1]
\* C28: the events dequeued are, in order, the first of the events enqueued;
\* the list holds exactly the events enqueued and not yet dequeued, in
\* order; event_isEmpty returns 1 exactly when every event enqueued has
\* been dequeued.
C28_QueueIsFifo ==
    LET n == Len(history.dequeued)
        m == Len(history.enqueued)
    IN  /\ n <= m
        /\ history.dequeued = SubSeq(history.enqueued, 1, n)
        /\ EventsFrom(queue, queue.front, MaxNodes + 1)
               = SubSeq(history.enqueued, n + 1, m)
        /\ (event_isEmpty(queue) = 1) <=> (history.dequeued = history.enqueued)

\* two different events have been dequeued, one enqueued after the first
\* dequeue, and an event is waiting
C28_Witness ==
    /\ Len(history.dequeued) >= 2
    /\ history.dequeued[1] # history.dequeued[2]
    /\ Len(history.enqueued) = MaxEnqueues
    /\ event_isEmpty(queue) = 0
\* C29: a tick of a running program with a good sensor frame completes the
\* step exactly when, in millidegrees, the setpoint less the measurement is
\* below the deadband (heating step), or the measurement is at or below the
\* setpoint (cooling step).
C29_StepCompletesAtTarget ==
    [][last'.op = "tick" /\ last'.ran /\ last'.sensor = "ok"
       /\ hheater.active_program # NULL
       => LET program    == program_list[hheater.active_program]
              is_heating == program.gradient_negative[hheater.current_step + 1] = 0
              T_set      == hheater.target_temperature * 1000
              T_meas     == RoundF32(max31855_get_temp_f32(htemp') * 250)
              advanced   == \/ hheater'.current_step # hheater.current_step
                            \/ hheater'.active_program = NULL
          IN  advanced <=> IF is_heating
                           THEN T_set - T_meas < TC_DEFAULT_T_BAND_MDEG
                           ELSE T_meas <= T_set]_vars
\* C30: a tick on a cooling step of a running program does not run the inner
\* PI: the integrator is left as it was or moved toward zero, and the
\* output of the PI switches no coil on.
C30_CoolingStepFreezesInnerPI ==
    [][last'.op = "tick" /\ last'.ran /\ hheater.active_program # NULL
       /\ program_list[hheater.active_program]
              .gradient_negative[hheater.current_step + 1] # 0
       => /\ \/ hgc.I >= 0 /\ hgc'.I \in 0 .. hgc.I
             \/ hgc.I <= 0 /\ hgc'.I \in hgc.I .. 0
          /\ last'.level = 0]_vars
\* C31: on a tick of a running program with the door closed that follows
\* calls of heater_set_state with the door open (they left a level in
\* heater_level_prev), the coil level is the one the controller computed in
\* this tick, and no saved level is left.
C31_DoorCloseUsesFreshOutput ==
    [][last'.op = "tick" /\ last'.ran
       /\ hheater.flag_door_open = 0 /\ hheater.heater_level_prev # 255
       /\ hheater'.gradient_control_enabled # 0
       => /\ hheater'.heater_level = last'.level
          /\ hheater'.heater_level_prev = 255]_vars
\* C32: between operations, gradient control is enabled exactly when a
\* program is attached; with a program attached current_step is below its
\* length and target_temperature is its temperature[current_step]; with
\* none attached current_step and target_temperature are 0.
C32_ProgramStateConsistent ==
    /\ (hheater.gradient_control_enabled # 0) <=> (hheater.active_program # NULL)
    /\ hheater.active_program # NULL
       => LET program == program_list[hheater.active_program]
          IN  /\ hheater.current_step < program.length
              /\ hheater.target_temperature
                     = program.temperature[hheater.current_step + 1]
    /\ hheater.active_program = NULL
       => hheater.current_step = 0 /\ hheater.target_temperature = 0

\* a program of two steps is on its second step after a tick advanced it
C32_Witness ==
    /\ last.op = "tick" /\ last.ran
    /\ hheater.active_program # NULL
    /\ hheater.current_step = 1
    /\ hheater.target_temperature = 19
\* C33: a running program of n steps eventually stops (gradient control
\* disabled, no program attached), and it does so after n ticks that
\* complete a step: each such tick moves to the next step of the same
\* program, and the one on the last step stops the program.
C33_RunningProgramStops ==
    /\ (hheater.active_program # NULL /\ hheater.gradient_control_enabled # 0)
           ~> (hheater.active_program = NULL
               /\ hheater.gradient_control_enabled = 0)
    /\ [][last'.op = "tick" /\ StepCompleted
          => IF hheater.current_step + 1
                    < program_list[hheater.active_program].length
             THEN /\ hheater'.active_program = hheater.active_program
                  /\ hheater'.current_step = hheater.current_step + 1
                  /\ hheater'.gradient_control_enabled # 0
             ELSE /\ hheater'.active_program = NULL
                  /\ hheater'.gradient_control_enabled = 0]_vars

\* the program of two steps has stopped after a tick, having waited
C33_Witness ==
    /\ last.op = "tick" /\ last.ran
    /\ started_ever /\ stopped
    /\ hheater.active_program = NULL
    /\ hheater.gradient_control_enabled = 0
    /\ ticks = MaxWaitTicks
C35_FailedLoadLeavesSettings ==
    [][SettingsLoad /\ last'.ret = "HAL_ERROR"
       => g_settings' = g_settings]_vars
\* the sequence of programs g holds: its first count slots
StoredPrograms(g) == [k \in 1 .. g.count |-> g.programs[k]]

\* the sequence s without its element at the zero-based index i
WithoutElement(s, i) ==
    [k \in 1 .. Len(s) - 1 |-> IF k <= i THEN s[k] ELSE s[k + 1]]

\* C36: g_programs behaves as a bounded sequence of capacity 10: after any
\* sequence of programs_reset_defaults, programs_add and programs_delete the
\* count is at most 10 and is the length of the sequence, programs_add
\* appends at the end and returns the index of the new element,
\* programs_delete(i) removes element i and keeps the order of the others,
\* and the slot freed at the end is zeroed.
C36_ProgramsAreBoundedSequence ==
    [][/\ g_programs'.count \in 0 .. MAX_PROGRAMS
       /\ last'.op = "programs_reset_defaults"
          => StoredPrograms(g_programs')
                = <<default_program_1, default_program_2, default_program_3>>
       /\ last'.op = "programs_add" /\ last'.ret # -1
          => /\ StoredPrograms(g_programs')
                   = Append(StoredPrograms(g_programs), last'.arg[1])
             /\ last'.ret = Len(StoredPrograms(g_programs')) - 1
       /\ last'.op = "programs_add" /\ last'.ret = -1
          => StoredPrograms(g_programs') = StoredPrograms(g_programs)
       /\ last'.op = "programs_delete" /\ last'.ret = "HAL_OK"
          => /\ StoredPrograms(g_programs')
                   = WithoutElement(StoredPrograms(g_programs), last'.arg)
             /\ g_programs'.programs[g_programs.count] = ZeroProgram
       /\ last'.op = "programs_delete" /\ last'.ret = "HAL_ERROR"
          => StoredPrograms(g_programs') = StoredPrograms(g_programs)]_vars

\* the third of four different programs has been deleted: the fourth has
\* moved down and its old slot is zeroed
C36_Witness ==
    /\ last.op = "programs_delete"
    /\ last.arg = 2
    /\ last.ret = "HAL_OK"
    /\ StoredPrograms(g_programs)
          = <<default_program_1, default_program_2, TwoStepProgram>>
    /\ g_programs.programs[4] = ZeroProgram
\* the last node of the list that starts at node a
RECURSIVE LastNode(_, _, _)
LastNode(q, a, fuel) ==
    IF q.heap[a].next = NULL \/ fuel = 0 THEN a
    ELSE LastNode(q, q.heap[a].next, fuel - 1)

\* C37: with event_enqueue called from the interrupts at any point of
\* event_dequeue, whenever the foreground is outside ui_get_events the events
\* delivered are the first of the events enqueued, each once and in order,
\* the list holds the others (none is lost), front is NULL exactly when rear
\* is NULL, and rear is the last node reachable from front.
C37_QueueSafeUnderPreemption ==
    pc.op = "idle"
    => LET n == Len(history.dequeued)
           m == Len(history.enqueued)
       IN  /\ n <= m
           /\ history.dequeued = SubSeq(history.enqueued, 1, n)
           /\ EventsFrom(queue, queue.front, MaxNodes + 1)
                  = SubSeq(history.enqueued, n + 1, m)
           /\ (queue.front = NULL) <=> (queue.rear = NULL)
           /\ queue.front # NULL
              => queue.rear = LastNode(queue, queue.front, MaxNodes)
\* the limits of a program: one to ten steps, each with a gradient of at
\* most 650 C/h, marked as cooling only when it is not 0, and a target of
\* at most 1300 C
ProgramWithinLimits(p) ==
    /\ p.length \in MIN_PROGRAM_SEQ_LENGTH .. MAX_PROGRAM_SEQ_LENGTH
    /\ \A i \in 1 .. p.length :
          /\ p.gradient[i] \in 0 .. MAX_GRADIENT
          /\ p.temperature[i] \in 0 .. MAX_TEMPERATURE
          /\ p.gradient[i] = 0 => p.gradient_negative[i] = 0

\* C38: every program the create-program dialog has stored, after any
\* sequence of button and encoder events, is a program of the list with a
\* length in 1..10, every step gradient in 0..650 and every step target in
\* 0..1300, and no step with gradient 0 marked cooling.
C38_StoredProgramsWithinLimits ==
    \A i \in 0 .. ui.programs.length - 1 :
        /\ i < MAX_PROGRAMS
        /\ ProgramWithinLimits(ui.programs.program_list[i])
\* the menus of the top level
TopLevelMenus == {"PROGRAMS", "SETPOINT", "SETTINGS"}

\* C39: BUT3 navigates back: the second of two consecutive BUT3 events
\* leaves the user interface in a top-level menu (PROGRAMS, SETPOINT or
\* SETTINGS) whatever screen the first was pressed on, BUT3 in a top-level
\* menu leaves the menu, the programs and the settings as they are, and BUT3
\* on the screen of a settings category also clears edit mode.
C39_Button3NavigatesBack ==
    [][last'.op = "ui_update" /\ last'.arg = "BUT3"
       => /\ last.op = "ui_update" /\ last.arg = "BUT3"
             => ui'.state \in TopLevelMenus
          /\ ui.state \in TopLevelMenus
             => /\ ui'.state = ui.state
                /\ ui'.programs = ui.programs
                /\ ui'.settings = ui.settings
          /\ ui.state \in DOMAIN SettingsScreens
             => /\ ui'.state = "SETTINGS_CATEGORIES"
                /\ ui'.settings.edit_mode = 0]_vars

\* BUT3 has brought the user from the list of settings categories back to
\* the SETTINGS menu
C39_Witness ==
    /\ last.op = "ui_update"
    /\ last.arg = "BUT3"
    /\ ui.state = "SETTINGS"
    /\ ui.last_state = "SETTINGS_CATEGORIES"
\* C40: in the PROGRAM_DETAILED view, after any sequence of BUT1, BUT2,
\* ENC_UP and ENC_DOWN events and for every stored program, the rows
\* ui_fill_lcd_buf_program writes (the steps of the program shown) are no
\* more than the rows allocated (ui->programs.length of them), and the row
\* scroll_counter selects is below the number of steps.
C40_DetailedViewRowsInBounds ==
    ui.state = "PROGRAM_DETAILED" /\ ui.programs.cur_index < MAX_PROGRAMS
    => LET steps == ui.programs.program_list[ui.programs.cur_index].length
       IN  /\ steps <= ui.programs.length
           /\ ui.scroll_counter < steps

=============================================================================
